---------------------------- MODULE Spec2Model ----------------------------
(***************************************************************************)
(* Model of the generation services of the application backend:           *)
(*   - the envelope stripper of AIService / ExerciseService,               *)
(*   - the Portuguese agreement correction of AIService,                   *)
(*   - the text generators of AIService over the Gemini client,            *)
(*   - the four file-cached TTS services (Edge, gTTS, Piper, Coqui) and    *)
(*     the Brazilian wrapper of the Edge service,                          *)
(*   - the singleton accessors, service ownership and the chat prompt,     *)
(*   - the standalone pyttsx3 speech server.                               *)
(* Python strings are sequences of characters, one string per character.   *)
(***************************************************************************)
EXTENDS Integers, Sequences, FiniteSets, TLC

VARIABLES
    response,      \* envelope stripping: the raw backend text
    cleaned,       \* envelope stripping: [once, twice] results
    cleanPc,       \* envelope stripping: "in" | "once" | "twice"
    cleanSvc,      \* which class's stripper is applied
    parts,         \* agreement correction: the pieces the input text is made of
    word,          \* agreement correction: the target word
    corrected,     \* agreement correction: [once, twice] results
    fixPc,         \* agreement correction: "in" | "once" | "twice"
    svc,           \* TTS: the class of the service instance
    backend,       \* TTS: the availability and lazy-load state of its engine
    fs,            \* TTS: the files of cache_dir, file name -> content
    engineCalls,   \* TTS: how often the speech engine has been invoked
    last,          \* TTS: the last call and what it returned
    aiLast,        \* AIService: the last call and what it returned
    aiPrev,        \* AIService: the call before it and what it returned
    backendCalls,  \* AIService: how often the Gemini client has been invoked
    accessor,      \* singleton: the accessor function the callers call
    instance,      \* singleton: the module global, 0 for None or an instance id
    instances,     \* singleton: the instances constructed so far, by id
    spc,           \* singleton: caller -> its position in the accessor
    created,       \* singleton: caller -> the instance it constructed, 0 if none
    got,           \* singleton: caller -> the instance returned to it, 0 if none
    rsvc,          \* race: the class of the service the callers share
    rfile,         \* race: the file at the cache path of the callers' request
    rpc,           \* race: caller -> its position in generate_speech
    rret,          \* race: caller -> what generate_speech returned to it
    rwr,           \* race: caller -> the engine run writing for it
    rcleared,      \* race: how often clear_cache has run meanwhile
    audio_cache,   \* TTS: the rows of the audio_cache table, file name -> row
    objects,       \* ownership: the service objects constructed so far, by class
    handles,       \* ownership: backend capability -> handles constructed for it
    chatRuns,      \* chat: the prompts built so far, each with its arguments
    speakReq,      \* speak server: request -> its text, position and response
    engine,        \* speak server: the pyttsx3 engine shared by the requests
    temp_file      \* speak server: the content of <tempdir>/speech.mp3

cleanVars == <<response, cleaned, cleanPc, cleanSvc>>
fixVars == <<parts, word, corrected, fixPc>>
ttsVars == <<svc, backend, fs, engineCalls, last, audio_cache>>
aiVars == <<aiLast, aiPrev, backendCalls>>
singVars == <<accessor, instance, instances, spc, created, got>>
raceVars == <<rsvc, rfile, rpc, rret, rwr, rcleared>>
ownVars == <<objects, handles>>
chatVars == <<chatRuns>>
speakVars == <<speakReq, engine, temp_file>>

vars == <<response, cleaned, cleanPc, cleanSvc, parts, word, corrected, fixPc,
          svc, backend, fs, engineCalls, last, aiLast, aiPrev, backendCalls,
          accessor, instance, instances, spc, created, got,
          rsvc, rfile, rpc, rret, rwr, rcleared,
          audio_cache, objects, handles, chatRuns, speakReq, engine, temp_file>>

-----------------------------------------------------------------------------
(* Python str helpers *)

\* str.strip() / re \s : the whitespace characters of the inputs drawn here
Whitespace == {" ", "\n"}

Max(S) == CHOOSE m \in S : \A k \in S : k <= m
Min(S) == CHOOSE m \in S : \A k \in S : m <= k

\* s.strip()
Strip(s) ==
    LET keep == {i \in 1..Len(s) : s[i] \notin Whitespace}
    IN  IF keep = {} THEN <<>> ELSE SubSeq(s, Min(keep), Max(keep))

\* s.startswith(p), s.endswith(p)
StartsWith(s, p) == Len(s) >= Len(p) /\ SubSeq(s, 1, Len(p)) = p
EndsWith(s, p) == Len(s) >= Len(p) /\ SubSeq(s, Len(s) - Len(p) + 1, Len(s)) = p

\* s[n:], s[:-n]
DropFirst(s, n) == SubSeq(s, n + 1, Len(s))
DropLast(s, n) == SubSeq(s, 1, Len(s) - n)

RECURSIVE Flatten(_)
\* "".join(ps)
Flatten(ps) ==
    IF ps = <<>> THEN <<>> ELSE Head(ps) \o Flatten(Tail(ps))

-----------------------------------------------------------------------------
(* Envelope stripping *)

\* the backtick character
BQ == "<backtick>"
\* the fence delimiter: three backticks
Fence == <<BQ, BQ, BQ>>
FenceJson == Fence \o <<"j", "s", "o", "n">>

\* AIService._clean_json_response
_clean_json_response(resp) ==
    LET r1 == Strip(resp)
        r2 == IF StartsWith(r1, FenceJson) THEN DropFirst(r1, 7)
              ELSE IF StartsWith(r1, Fence) THEN DropFirst(r1, 3)
              ELSE r1
        r3 == IF EndsWith(r2, Fence) THEN DropLast(r2, 3) ELSE r2
    IN  Strip(r3)

\* ExerciseService._clean_json
_clean_json(resp) ==
    LET r1 == Strip(resp)
        r2 == IF StartsWith(r1, FenceJson) THEN DropFirst(r1, 7)
              ELSE IF StartsWith(r1, Fence) THEN DropFirst(r1, 3)
              ELSE r1
        r3 == IF EndsWith(r2, Fence) THEN DropLast(r2, 3) ELSE r2
    IN  Strip(r3)

StripEnvelope(cls, resp) ==
    IF cls = "AIService" THEN _clean_json_response(resp) ELSE _clean_json(resp)

\* the pieces raw backend texts are assembled from
MaxSegs == 4
EnvelopeSegs == {Fence, FenceJson, <<" ">>, <<"\n">>, <<"{", "}">>, <<"x">>}
RawResponses ==
    {Flatten(t) : t \in UNION {[1..n -> EnvelopeSegs] : n \in 0..MaxSegs}}

CleanIdle ==
    /\ response = <<>>
    /\ cleanSvc = "AIService"
    /\ cleaned = [once |-> <<>>, twice |-> <<>>]
    /\ cleanPc = "in"

FixIdle ==
    /\ parts = <<>>
    /\ word = <<>>
    /\ corrected = [once |-> <<>>, twice |-> <<>>]
    /\ fixPc = "in"

\* Python's None
None == "None"

\* no call made yet
NoRequest == [text |-> <<>>, language |-> "", voice |-> None, speed |-> "", use_cache |-> FALSE]
NoName == [prefix |-> "", hash |-> <<>>, ext |-> ""]
NoCall ==
    [op |-> "none", req |-> NoRequest, kind |-> None, cached |-> FALSE,
     audio_path |-> [dir |-> "", name |-> NoName],
     audio_url |-> [base |-> "", name |-> NoName],
     file_size |-> 0, invoked |-> FALSE, outcome |-> "not_invoked",
     entry_before |-> FALSE, files_deleted |-> 0, total_files |-> 0]

\* a directory without files
EmptyDir == [n \in {} |-> 0]

\* no AIService call made yet
NoAiCall ==
    [call |-> [op |-> "none", word |-> <<>>, translation |-> <<>>, difficulty |-> 0,
               num |-> 0, extra |-> <<>>],
     kind |-> "none", source |-> "none", py |-> "NoneType", value |-> "",
     text |-> <<>>, items |-> 0, from_cache |-> FALSE, invoked |-> FALSE,
     raw |-> [raised |-> FALSE, text |-> <<>>], options |-> <<>>,
     correct_answer |-> <<>>]

AiIdle ==
    /\ aiLast = NoAiCall
    /\ aiPrev = NoAiCall
    /\ backendCalls = 0

\* the callers of the services
Callers == {1, 2}

SingIdle ==
    /\ accessor = "none"
    /\ instance = 0
    /\ instances = <<>>
    /\ spc = [t \in Callers |-> "idle"]
    /\ created = [t \in Callers |-> 0]
    /\ got = [t \in Callers |-> 0]

\* what generate_speech has returned to a caller: nothing yet
NoReturn ==
    [kind |-> "none", cached |-> FALSE, content |-> <<>>, during_write |-> FALSE,
     by_killed |-> FALSE]

\* no engine run
NoWriter == [st |-> "idle", pos |-> 0, attached |-> FALSE]

\* no file at the path
Absent == [present |-> FALSE, cells |-> <<>>]

RaceIdle ==
    /\ rsvc = "none"
    /\ rfile = Absent
    /\ rpc = [t \in Callers |-> "idle"]
    /\ rret = [t \in Callers |-> NoReturn]
    /\ rwr = [t \in Callers |-> NoWriter]
    /\ rcleared = 0

\* no service object constructed, no backend handle
OwnIdle ==
    /\ objects = <<>>
    /\ handles = [c \in {"text", "edge", "brazilian"} |-> 0]

\* no prompt built
ChatIdle == chatRuns = <<>>
SpeakIdle ==
    /\ speakReq = <<>>
    /\ engine = [queue |-> <<>>, in_loop |-> FALSE]
    /\ temp_file = [exists |-> FALSE, audio |-> <<>>]

TtsIdle ==
    /\ audio_cache = EmptyDir
    /\ svc = "none"
    /\ backend = [available |-> FALSE, model_on_disk |-> FALSE, loaded |-> FALSE]
    /\ fs = EmptyDir
    /\ engineCalls = 0
    /\ last = NoCall

InitClean ==
    /\ response \in RawResponses
    /\ cleanSvc \in {"AIService", "ExerciseService"}
    /\ cleaned = [once |-> <<>>, twice |-> <<>>]
    /\ cleanPc = "in"
    /\ FixIdle
    /\ OwnIdle
    /\ ChatIdle
    /\ TtsIdle
    /\ AiIdle
    /\ SingIdle
    /\ RaceIdle
    /\ SpeakIdle

\* the stripper applied to the raw text
CleanOnce ==
    /\ cleanPc = "in"
    /\ cleaned' = [cleaned EXCEPT !.once = StripEnvelope(cleanSvc, response)]
    /\ cleanPc' = "once"
    /\ UNCHANGED <<response, cleanSvc, fixVars, ttsVars, aiVars, singVars, raceVars, ownVars, chatVars, speakVars>>

\* the stripper applied to its own output
CleanTwice ==
    /\ cleanPc = "once"
    /\ cleaned' = [cleaned EXCEPT !.twice = StripEnvelope(cleanSvc, cleaned.once)]
    /\ cleanPc' = "twice"
    /\ UNCHANGED <<response, cleanSvc, fixVars, ttsVars, aiVars, singVars, raceVars, ownVars, chatVars, speakVars>>

NextClean == CleanOnce \/ CleanTwice

SpecClean == InitClean /\ [][NextClean]_vars

\* C8: stripping the envelope twice yields the same text as stripping it once,
\* for AIService._clean_json_response and ExerciseService._clean_json
C8_StripIdempotent ==
    cleanPc = "twice" => cleaned.twice = cleaned.once

-----------------------------------------------------------------------------
(* Python str case mapping and re.sub with re.IGNORECASE *)

\* the accented letter of "é" and its capital
EAcute == "<e-acute>"
EAcuteCap == "<E-acute>"

\* str.lower() on one character
LowerOf ==
    ("A" :> "a") @@ ("C" :> "c") @@ ("E" :> "e") @@ ("L" :> "l") @@
    ("M" :> "m") @@ ("O" :> "o") @@ ("S" :> "s") @@ ("T" :> "t") @@
    ("U" :> "u") @@ ("V" :> "v") @@ ("X" :> "x") @@ (EAcuteCap :> EAcute)

ToLower(c) == IF c \in DOMAIN LowerOf THEN LowerOf[c] ELSE c
ToUpper(c) ==
    IF \E u \in DOMAIN LowerOf : LowerOf[u] = c
    THEN CHOOSE u \in DOMAIN LowerOf : LowerOf[u] = c
    ELSE c

\* s.lower(), s.upper()
Lower(s) == [i \in 1..Len(s) |-> ToLower(s[i])]
Upper(s) == [i \in 1..Len(s) |-> ToUpper(s[i])]

\* the literal lit occurs in s at position i, ignoring case
LitAt(lit, s, i) ==
    /\ i + Len(lit) - 1 <= Len(s)
    /\ \A j \in 1..Len(lit) : ToLower(s[i + j - 1]) = ToLower(lit[j])

\* the length of the run of whitespace of s that starts at position i
RECURSIVE SpaceRun(_, _)
SpaceRun(s, i) ==
    IF i <= Len(s) /\ s[i] \in Whitespace THEN 1 + SpaceRun(s, i + 1) ELSE 0

\* A pattern is a sequence of items: [k |-> "lit", s |-> literal],
\* [k |-> "ws"] for \s+, [k |-> "opt", c |-> char] for c?, and
\* [k |-> "alt", a |-> literal, b |-> literal] for (a|b).
Lit(s) == [k |-> "lit", s |-> s]
Ws == [k |-> "ws"]
Opt(c) == [k |-> "opt", c |-> c]
Alt(a, b) == [k |-> "alt", a |-> a, b |-> b]

\* The positions where a match of items k.. of pat that starts at position i
\* of s can end, in the order the backtracking matcher tries them.
RECURSIVE MatchEnds(_, _, _, _)
RECURSIVE WsEnds(_, _, _, _, _)
MatchEnds(pat, k, s, i) ==
    IF k > Len(pat) THEN <<i>>
    ELSE LET it == pat[k] IN
         CASE it.k = "lit" ->
                IF LitAt(it.s, s, i)
                THEN MatchEnds(pat, k + 1, s, i + Len(it.s)) ELSE <<>>
           [] it.k = "ws" -> WsEnds(pat, k, s, i, SpaceRun(s, i))
           [] it.k = "opt" ->
                (IF LitAt(<<it.c>>, s, i)
                 THEN MatchEnds(pat, k + 1, s, i + 1) ELSE <<>>)
                \o MatchEnds(pat, k + 1, s, i)
           [] it.k = "alt" ->
                (IF LitAt(it.a, s, i)
                 THEN MatchEnds(pat, k + 1, s, i + Len(it.a)) ELSE <<>>)
                \o (IF LitAt(it.b, s, i)
                    THEN MatchEnds(pat, k + 1, s, i + Len(it.b)) ELSE <<>>)
\* \s+ is greedy: the longest run first
WsEnds(pat, k, s, i, n) ==
    IF n = 0 THEN <<>>
    ELSE MatchEnds(pat, k + 1, s, i + n) \o WsEnds(pat, k, s, i, n - 1)

\* the end of the match of pat at position i of s, 0 when there is none
MatchEnd(pat, s, i) ==
    LET ends == MatchEnds(pat, 1, s, i) IN IF ends = <<>> THEN 0 ELSE ends[1]

\* re.sub(pat, repl, s, flags=re.IGNORECASE): leftmost non-overlapping matches
RECURSIVE SubFrom(_, _, _, _)
SubFrom(pat, repl, s, i) ==
    IF i > Len(s) THEN <<>>
    ELSE LET e == MatchEnd(pat, s, i) IN
         IF e > i THEN repl \o SubFrom(pat, repl, s, e)
         ELSE <<s[i]>> \o SubFrom(pat, repl, s, i + 1)

ReSub(pat, repl, s) == SubFrom(pat, repl, s, 1)

\* x in s
Contains(s, x) ==
    \E i \in 1..(Len(s) - Len(x) + 1) : SubSeq(s, i, i + Len(x) - 1) = x

-----------------------------------------------------------------------------
(* Agreement correction *)

Esse == <<"E", "s", "s", "e">>
Essa == <<"E", "s", "s", "a">>
EsseE == Esse \o <<" ", EAcute>>
EssaE == Essa \o <<" ", EAcute>>

\* mutant: the gender test without the lower-casing of the word
is_feminine_case_sensitive(w) == EndsWith(w, <<"a">>)

\* word_lower.endswith('a')
is_feminine(w) == EndsWith(Lower(w), <<"a">>)

correct_article(w) == IF is_feminine(w) THEN <<"a">> ELSE <<"o">>
correct_demonstrative(w) == IF is_feminine(w) THEN EssaE ELSE EsseE
wrong_demonstrative(w) == IF is_feminine(w) THEN EsseE ELSE EssaE

\* the replacement of every rule
replacement(w) ==
    correct_demonstrative(w) \o <<" ">> \o correct_article(w) \o <<" ">> \o Upper(w)

patterns_to_fix(w) ==
    << <<Lit(wrong_demonstrative(w)), Ws, Lit(correct_article(w)), Ws, Lit(Upper(w))>>,
       <<Lit(wrong_demonstrative(w)), Ws, Lit(<<"u", "m">>), Opt("a"), Ws, Lit(Upper(w))>>,
       <<Alt(Essa, Esse), Ws, Lit(<<EAcute>>), Ws, Lit(<<"u", "m">>), Opt("a"), Ws,
         Lit(Upper(w))>>,
       <<Lit(wrong_demonstrative(w)), Ws, Lit(Upper(w))>>,
       <<Alt(Essa, Esse), Ws, Lit(<<EAcute>>), Ws, Lit(Upper(w))>> >>

RECURSIVE ApplyRules(_, _, _, _)
ApplyRules(rules, k, repl, t) ==
    IF k > Len(rules) THEN t
    ELSE ApplyRules(rules, k + 1, repl, ReSub(rules[k], repl, t))

\* AIService._fix_portuguese_grammar
_fix_portuguese_grammar(t, w) == ApplyRules(patterns_to_fix(w), 1, replacement(w), t)

\* the words and the pieces of text the correction is applied to
MaxParts == 2
Words == { <<"m", "e", "s", "a">>, <<"s", "o", "l">>, <<"C", "A", "S", "A">>, <<"a">> }
Demonstratives == {EsseE, EssaE}
Articles == { <<>>, <<"a", " ">>, <<"o", " ">>, <<"u", "m", "a", " ">> }
\* a demonstrative, an optional article and the word in capitals, and two
\* lower-case variants, one with a run of two spaces inside the demonstrative
Clauses(w) ==
    {d \o <<" ">> \o a \o Upper(w) : d \in Demonstratives, a \in Articles}
    \cup {Lower(Esse) \o <<" ", " ", EAcute, " ">> \o Lower(w),
          Lower(Essa) \o <<" ", EAcute, " ", "a", " ", " ">> \o Lower(w)}
Fillers == { <<"x">>, <<" ">>, <<"O", "l", EAcute, "!", " ">> }
Texts(w) == UNION {[1..n -> Clauses(w) \cup Fillers] : n \in 0..MaxParts}

InitFix ==
    /\ word \in Words
    /\ parts \in Texts(word)
    /\ corrected = [once |-> <<>>, twice |-> <<>>]
    /\ fixPc = "in"
    /\ CleanIdle
    /\ OwnIdle
    /\ ChatIdle
    /\ TtsIdle
    /\ AiIdle
    /\ SingIdle
    /\ RaceIdle
    /\ SpeakIdle

\* the correction applied to the text
FixOnce ==
    /\ fixPc = "in"
    /\ corrected' = [corrected EXCEPT !.once = _fix_portuguese_grammar(Flatten(parts), word)]
    /\ fixPc' = "once"
    /\ UNCHANGED <<parts, word, cleanVars, ttsVars, aiVars, singVars, raceVars, ownVars, chatVars, speakVars>>

\* the correction applied to its own output
FixTwice ==
    /\ fixPc = "once"
    /\ corrected' = [corrected EXCEPT !.twice = _fix_portuguese_grammar(corrected.once, word)]
    /\ fixPc' = "twice"
    /\ UNCHANGED <<parts, word, cleanVars, ttsVars, aiVars, singVars, raceVars, ownVars, chatVars, speakVars>>

NextFix == FixOnce \/ FixTwice

SpecFix == InitFix /\ [][NextFix]_vars

\* C9: correcting an already corrected text changes nothing
C9_FixIdempotent ==
    fixPc = "twice" => corrected.twice = corrected.once

\* the mis-agreed and the agreed form of claim C10 for a word w, the feminine
\* marker read off the word's last letter
EndsInA(w) == w # <<>> /\ w[Len(w)] \in {"a", "A"}
MisAgreed(w) ==
    IF EndsInA(w) THEN EsseE \o <<" ", "a", " ">> \o Upper(w)
    ELSE EssaE \o <<" ", "o", " ">> \o Upper(w)
Agreed(w) ==
    IF EndsInA(w) THEN EssaE \o <<" ", "a", " ">> \o Upper(w)
    ELSE EsseE \o <<" ", "o", " ">> \o Upper(w)

\* C10: a text containing 'Esse é a WORD' (word ending in 'a') or
\* 'Essa é o WORD' (any other word) is rewritten so that the output contains
\* 'Essa é a WORD', respectively 'Esse é o WORD', and the text before and
\* after the mis-agreed form is left as it was
C10_AgreementCorrected ==
    fixPc # "in" =>
        \A k \in 1..Len(parts) :
            parts[k] = MisAgreed(word) =>
                /\ Contains(corrected.once, Agreed(word))
                /\ (\A j \in 1..Len(parts) : j # k => parts[j] \in Fillers) =>
                       /\ StartsWith(corrected.once, Flatten(SubSeq(parts, 1, k - 1)))
                       /\ EndsWith(corrected.once, Flatten(SubSeq(parts, k + 1, Len(parts))))

\* C10 witness: a mis-agreed form between two pieces of other text has been corrected
C10_Witness ==
    /\ fixPc = "once"
    /\ Len(parts) = 2
    /\ parts[1] \in Fillers /\ parts[1] # <<" ">>
    /\ parts[2] = MisAgreed(word)
    /\ EndsInA(word)
    /\ corrected.once # Flatten(parts)

-----------------------------------------------------------------------------
(* The TTS services: EdgeTTSService, GoogleTTSService, PiperTTSService,     *)
(* CoquiTTSService.  Each instance owns cache_dir and an engine.            *)

Services == {"EdgeTTSService", "GoogleTTSService", "PiperTTSService", "CoquiTTSService"}

\* speeds of Piper and Coqui are floats, kept in tenths: 10 is 1.0
Digits == <<"0", "1", "2", "3", "4", "5", "6", "7", "8", "9">>

\* str(float) of a speed in tenths, as the f-string of the key formats it
FloatStr(t) == <<Digits[(t \div 10) + 1], ".", Digits[(t % 10) + 1]>>

\* hashlib.md5(...).hexdigest(): a digest stands for the text it was taken of
Md5Hex(key) == <<"md5">> \o key

\* a file name of cache_dir: f"{prefix}{hash}{ext}"
FileName(prefix, hash, ext) == [prefix |-> prefix, hash |-> hash, ext |-> ext]

\* cache_dir / name, and str() of it
CacheDir == "./audio_cache_pt"
PathOf(name) == [dir |-> CacheDir, name |-> name]

\* f"{base}{cache_path.name}"
UrlOf(base, name) == [base |-> base, name |-> name]

\* what a file holds: "empty" (0 bytes), "partial" (a truncated write) or
\* "full", and the parameters of the call whose engine run wrote it
Exists(dir, name) == name \in DOMAIN dir
StSize(dir, name) ==
    CASE dir[name].st = "empty" -> 0
      [] dir[name].st = "partial" -> 1
      [] dir[name].st = "full" -> 2

\* cache_path.exists() and cache_path.stat().st_size > 0
_is_cached(dir, name) == Exists(dir, name) /\ StSize(dir, name) > 0

\* what one run of the engine does with the output file
EngineOutcomes == {"ok", "ok_empty", "ok_nofile", "err", "err_empty", "err_partial"}

\* the engine raised, exited non-zero or timed out
Raises(o) == o \in {"err", "err_empty", "err_partial"}

\* the engine writes straight to the cache path
WriteFile(dir, name, o, by) ==
    CASE o = "ok" -> (name :> [st |-> "full", by |-> by]) @@ dir
      [] o \in {"ok_empty", "err_empty"} -> (name :> [st |-> "empty", by |-> by]) @@ dir
      [] o = "err_partial" -> (name :> [st |-> "partial", by |-> by]) @@ dir
      [] OTHER -> dir

\* the parameters a caller passes that the audio depends on
Params(req) == [text |-> req.text, voice |-> req.voice, speed |-> req.speed]

(* EdgeTTSService *)
default_voices ==
    ("pt-BR" :> "pt-BR-FranciscaNeural") @@ ("en-US" :> "en-US-AvaNeural") @@
    ("en-GB" :> "en-GB-SoniaNeural") @@ ("es-ES" :> "es-ES-ElviraNeural")

rate_map == ("slow" :> "-20%") @@ ("normal" :> "+0%") @@ ("fast" :> "+20%")

EdgeVoice(req) ==
    IF req.voice # None THEN req.voice
    ELSE IF req.language \in DOMAIN default_voices THEN default_voices[req.language]
    ELSE "pt-BR-FranciscaNeural"

EdgeRate(req) == IF req.speed \in DOMAIN rate_map THEN rate_map[req.speed] ELSE "+0%"

EdgeCachePath(text, voice, rate) ==
    FileName("edge_", Md5Hex(text \o <<"_", voice, "_", rate>>), ".mp3")

(* GoogleTTSService *)
GttsCachePath(text, speed) ==
    FileName("gtts_pt_", Md5Hex(text \o <<"_", speed>>), ".mp3")

(* PiperTTSService *)
PiperCachePath(text, speed) ==
    FileName("piper_pt_", Md5Hex(text \o <<"_">> \o FloatStr(speed)), ".wav")

(* CoquiTTSService *)
\* ord() of the characters the texts are made of
Ord(c) ==
    CASE c = " " -> 32
      [] c = "H" -> 72
      [] c = "i" -> 105
      [] c = "<U+1F600>" -> 128512
      [] c = "<U+1F914>" -> 129300

\* the character class of emoji_pattern: U+1F600-1F64F, U+1F300-1F5FF,
\* U+1F680-1F6FF, U+1F1E0-1F1FF, U+2702-27B0, U+24C2-1F251
emoji_pattern ==
    { <<128512, 128591>>, <<127744, 128511>>, <<128640, 128767>>,
      <<127462, 127487>>, <<9986, 10160>>, <<9410, 127569>> }

remove_emojis(text) ==
    SelectSeq(text, LAMBDA c : ~\E r \in emoji_pattern : r[1] <= Ord(c) /\ Ord(c) <= r[2])

speed_label(speed) ==
    IF speed < 9 THEN "slow" ELSE IF speed > 11 THEN "fast" ELSE "normal"

CoquiCachePath(text, label) ==
    FileName("coqui_", Md5Hex(text \o <<"_", label>>), ".wav")

\* the cache file a request is looked up under
KeyOf(s, req) ==
    CASE s = "EdgeTTSService" -> EdgeCachePath(req.text, EdgeVoice(req), EdgeRate(req))
      [] s = "GoogleTTSService" -> GttsCachePath(req.text, req.speed)
      [] s = "PiperTTSService" -> PiperCachePath(req.text, req.speed)
      [] s = "CoquiTTSService" ->
            CoquiCachePath(Strip(remove_emojis(req.text)), speed_label(req.speed))

\* the lookup each service makes before it generates
IsHit(s, dir, name) ==
    IF s = "CoquiTTSService" THEN Exists(dir, name) ELSE _is_cached(dir, name)


\* as if the flag told whether an entry existed, whatever the call then did
Result_cached_if_entry(req, cached, name, url, dir, o, before) ==
    [op |-> "generate_speech", req |-> req, kind |-> "result", cached |-> before,
     audio_path |-> PathOf(name), audio_url |-> url,
     file_size |-> IF Exists(dir, name) THEN StSize(dir, name) ELSE 0,
     invoked |-> o \notin {"not_invoked", "init_failed"}, outcome |-> o, entry_before |-> before,
     files_deleted |-> 0, total_files |-> 0]

\* the dictionary generate_speech returns, and what the call did:
\* o is how the engine run ended, "not_invoked" if there was none,
\* "init_failed" if there was none because the lazy initialisation failed
Result(req, cached, name, url, dir, o, before) ==
    [op |-> "generate_speech", req |-> req, kind |-> "result", cached |-> cached,
     audio_path |-> PathOf(name), audio_url |-> url,
     file_size |-> IF Exists(dir, name) THEN StSize(dir, name) ELSE 0,
     invoked |-> o \notin {"not_invoked", "init_failed"}, outcome |-> o, entry_before |-> before,
     files_deleted |-> 0, total_files |-> 0]

\* mutant: a failed call hands back a degraded result instead of None
DegradedResult(req, o, before) ==
    [NoCall EXCEPT !.op = "generate_speech", !.req = req, !.kind = "result",
                   !.invoked = (o \notin {"not_invoked", "init_failed"}), !.outcome = o,
                   !.entry_before = before]

\* generate_speech returned None
NoResult(req, o, before) ==
    [NoCall EXCEPT !.op = "generate_speech", !.req = req,
                   !.invoked = (o \notin {"not_invoked", "init_failed"}), !.outcome = o,
                   !.entry_before = before]

\* the audio_url of the cache-hit and of the fresh result
EdgeHitUrl(name) == UrlOf("/audio_cache_pt/", name)
\* mutant: the fresh result carries an absolute URL, the cached one a relative
EdgeMissUrl_absolute(name) == UrlOf("http://localhost:8000/audio_cache_pt/", name)
EdgeMissUrl(name) == UrlOf("/audio_cache_pt/", name)
GttsHitUrl(name) == UrlOf("http://localhost:8000/audio_cache_pt/", name)
GttsMissUrl(name) == UrlOf("http://localhost:8000/audio_cache_pt/", name)
PiperHitUrl(name) == UrlOf("/audio_cache_pt/", name)
PiperMissUrl(name) == UrlOf("/audio_cache_pt/", name)
CoquiHitUrl(name) == UrlOf("http://localhost:8000/audio_cache_pt/", name)
CoquiMissUrl(name) == UrlOf("http://localhost:8000/audio_cache_pt/", name)

\* the engine may be invoked this often in one behaviour
MaxEngineCalls == 2

\* the inputs of generate_speech
TtsTexts == { <<"H", "i">>, <<" ", "H", "i">> }
CoquiTexts ==
    TtsTexts \cup { <<>>, <<" ">>, <<"<U+1F600>">>, <<"H", "i", "<U+1F600>">>,
                    <<"<U+1F914>">> }

Requests(s) ==
    CASE s = "EdgeTTSService" ->
            [text : TtsTexts, language : {"pt-BR"}, voice : {None, "en-US-AvaNeural"},
             speed : {"normal", "slow"}, use_cache : BOOLEAN]
      [] s = "GoogleTTSService" ->
            [text : TtsTexts, language : {"pt-BR"}, voice : {None},
             speed : {"normal", "slow"}, use_cache : BOOLEAN]
      [] s = "PiperTTSService" ->
            [text : TtsTexts, language : {"pt-BR"}, voice : {None},
             speed : {5, 10}, use_cache : BOOLEAN]
      [] s = "CoquiTTSService" ->
            [text : CoquiTexts, language : {"pt-BR"}, voice : {None},
             speed : {5, 8, 10}, use_cache : BOOLEAN]

EdgeGenerateSpeech(req) ==
    /\ svc = "EdgeTTSService"
    /\ LET name == EdgeCachePath(req.text, EdgeVoice(req), EdgeRate(req))
           before == _is_cached(fs, name)
       IN  IF ~backend.available
             THEN /\ last' = NoResult(req, "not_invoked", before)
                  /\ UNCHANGED <<fs, engineCalls>>
           ELSE IF req.use_cache /\ _is_cached(fs, name)
             THEN /\ last' = Result(req, TRUE, name, EdgeHitUrl(name), fs,
                                    "not_invoked", before)
                  /\ UNCHANGED <<fs, engineCalls>>
           ELSE /\ engineCalls < MaxEngineCalls
                /\ engineCalls' = engineCalls + 1
                /\ \E o \in EngineOutcomes :
                     LET written == WriteFile(fs, name, o, Params(req))
                         \* _generate_async: save, then check the file;
                         \* an exception gives False
                         success == ~Raises(o) /\ _is_cached(written, name)
                     IN  /\ fs' = written
                         /\ last' = IF ~success \/ ~_is_cached(written, name)
                                      THEN NoResult(req, o, before)
                                      ELSE Result(req, FALSE, name, EdgeMissUrl(name),
                                                  written, o, before)
    /\ UNCHANGED <<svc, backend, audio_cache, cleanVars, fixVars, aiVars, singVars, raceVars, ownVars, chatVars, speakVars>>

GttsGenerateSpeech(req) ==
    /\ svc = "GoogleTTSService"
    /\ LET name == GttsCachePath(req.text, req.speed)
           before == _is_cached(fs, name)
       IN  IF ~backend.available
             THEN /\ last' = NoResult(req, "not_invoked", before)
                  /\ UNCHANGED <<fs, engineCalls>>
           ELSE IF req.use_cache /\ _is_cached(fs, name)
             THEN /\ last' = Result(req, TRUE, name, GttsHitUrl(name), fs,
                                    "not_invoked", before)
                  /\ UNCHANGED <<fs, engineCalls>>
           ELSE /\ engineCalls < MaxEngineCalls
                /\ engineCalls' = engineCalls + 1
                /\ \E o \in EngineOutcomes :
                     LET written == WriteFile(fs, name, o, Params(req))
                     IN  /\ fs' = written
                         /\ last' = IF Raises(o) THEN NoResult(req, o, before)
                                    \* cache_path.stat() of a missing file raises
                                    ELSE IF ~Exists(written, name)
                                      THEN NoResult(req, o, before)
                                    ELSE Result(req, FALSE, name, GttsMissUrl(name),
                                                written, o, before)
    /\ UNCHANGED <<svc, backend, audio_cache, cleanVars, fixVars, aiVars, singVars, raceVars, ownVars, chatVars, speakVars>>

PiperGenerateSpeech(req) ==
    /\ svc = "PiperTTSService"
    /\ LET name == PiperCachePath(req.text, req.speed)
           before == _is_cached(fs, name)
       IN  IF ~backend.available
             THEN /\ last' = NoResult(req, "not_invoked", before)
                  /\ UNCHANGED <<fs, engineCalls, backend>>
           \* download_model: looks for the model while model_path is unset
           ELSE IF ~backend.loaded /\ ~backend.model_on_disk
             THEN /\ last' = NoResult(req, "init_failed", before)
                  /\ UNCHANGED <<fs, engineCalls, backend>>
           ELSE /\ backend' = [backend EXCEPT !.loaded = TRUE]
                /\ IF req.use_cache /\ _is_cached(fs, name)
                     THEN /\ last' = Result(req, TRUE, name, PiperHitUrl(name), fs,
                                            "not_invoked", before)
                          /\ UNCHANGED <<fs, engineCalls>>
                   ELSE /\ engineCalls < MaxEngineCalls
                        /\ engineCalls' = engineCalls + 1
                        /\ \E o \in EngineOutcomes :
                             LET written == WriteFile(fs, name, o, Params(req))
                             IN  /\ fs' = written
                                 \* a non-zero exit, TimeoutExpired or another exception
                                 /\ last' = IF Raises(o) THEN NoResult(req, o, before)
                                            ELSE IF ~Exists(written, name)
                                              THEN NoResult(req, o, before)
                                            ELSE Result(req, FALSE, name,
                                                        PiperMissUrl(name), written, o,
                                                        before)
    /\ UNCHANGED <<svc, audio_cache, cleanVars, fixVars, aiVars, singVars, raceVars, ownVars, chatVars, speakVars>>

CoquiGenerateSpeech(req) ==
    /\ svc = "CoquiTTSService"
    /\ LET text_clean == Strip(remove_emojis(req.text))
           name == CoquiCachePath(text_clean, speed_label(req.speed))
           before == Exists(fs, name)
       IN  IF req.text = <<>> \/ Strip(req.text) = <<>> \/ text_clean = <<>>
             THEN /\ last' = NoResult(req, "not_invoked", FALSE)
                  /\ UNCHANGED <<fs, engineCalls, backend>>
           ELSE IF req.use_cache /\ Exists(fs, name)
             THEN /\ last' = Result(req, TRUE, name, CoquiHitUrl(name), fs,
                                    "not_invoked", before)
                  /\ UNCHANGED <<fs, engineCalls, backend>>
           \* _load_model raises while the model cannot be loaded
           ELSE IF ~backend.loaded /\ ~backend.model_on_disk
             THEN /\ last' = NoResult(req, "init_failed", before)
                  /\ UNCHANGED <<fs, engineCalls, backend>>
           ELSE /\ backend' = [backend EXCEPT !.loaded = TRUE]
                /\ engineCalls < MaxEngineCalls
                /\ engineCalls' = engineCalls + 1
                /\ \E o \in EngineOutcomes :
                     LET written == WriteFile(fs, name, o, Params(req))
                     IN  /\ fs' = written
                         /\ last' = IF Raises(o) THEN NoResult(req, o, before)
                                    ELSE Result(req, FALSE, name, CoquiMissUrl(name),
                                                written, o, before)
    /\ UNCHANGED <<svc, audio_cache, cleanVars, fixVars, aiVars, singVars, raceVars, ownVars, chatVars, speakVars>>

\* the pattern clear_cache globs cache_dir with; an empty prefix is "*"
CacheGlob(s) ==
    CASE s = "EdgeTTSService" -> [prefix |-> "edge_", ext |-> ".mp3"]
      [] s = "GoogleTTSService" -> [prefix |-> "", ext |-> ".mp3"]
      [] s = "PiperTTSService" -> [prefix |-> "", ext |-> ".wav"]
      [] s = "CoquiTTSService" -> [prefix |-> "coqui_", ext |-> ".wav"]

GlobMatches(g, name) == (g.prefix = "" \/ name.prefix = g.prefix) /\ name.ext = g.ext

ClearCache ==
    /\ svc \in Services
    /\ LET files == {n \in DOMAIN fs : GlobMatches(CacheGlob(svc), n)}
       IN  /\ fs' = [n \in DOMAIN fs \ files |-> fs[n]]
           /\ last' = [NoCall EXCEPT !.op = "clear_cache",
                                     !.files_deleted = Cardinality(files)]
    /\ UNCHANGED <<svc, backend, engineCalls, audio_cache, cleanVars, fixVars, aiVars, singVars, raceVars, ownVars, chatVars, speakVars>>

\* the same pattern, as it is written again in get_cache_stats
StatsGlob_all(s) == [prefix |-> "", ext |-> CacheGlob(s).ext]
StatsGlob(s) ==
    CASE s = "EdgeTTSService" -> [prefix |-> "edge_", ext |-> ".mp3"]
      [] s = "GoogleTTSService" -> [prefix |-> "", ext |-> ".mp3"]
      [] s = "PiperTTSService" -> [prefix |-> "", ext |-> ".wav"]
      [] s = "CoquiTTSService" -> [prefix |-> "coqui_", ext |-> ".wav"]

GetCacheStats ==
    /\ svc \in Services
    /\ LET files == {n \in DOMAIN fs : GlobMatches(StatsGlob(svc), n)}
       IN  last' = [NoCall EXCEPT !.op = "get_cache_stats",
                                  !.total_files = Cardinality(files)]
    /\ UNCHANGED <<svc, backend, fs, engineCalls, audio_cache, cleanVars, fixVars, aiVars,
                   singVars, raceVars, ownVars, chatVars, speakVars>>

\* the environment: the Piper model file / the Coqui model becomes available
InstallModel ==
    /\ svc \in {"PiperTTSService", "CoquiTTSService"}
    /\ ~backend.model_on_disk
    /\ backend' = [backend EXCEPT !.model_on_disk = TRUE]
    /\ UNCHANGED <<svc, fs, engineCalls, last, audio_cache, cleanVars, fixVars, aiVars, singVars, raceVars, ownVars, chatVars, speakVars>>

\* the engine state a fresh instance can find itself with
Backends(s) ==
    CASE s \in {"EdgeTTSService", "GoogleTTSService"} ->
            [available : BOOLEAN, model_on_disk : {TRUE}, loaded : {FALSE}]
      [] s = "PiperTTSService" ->
            [available : BOOLEAN, model_on_disk : BOOLEAN, loaded : {FALSE}]
      [] s = "CoquiTTSService" ->
            [available : {TRUE}, model_on_disk : BOOLEAN, loaded : {FALSE}]

\* every service defaults to the same cache_dir, "./audio_cache_pt": the
\* directory starts with a file another service left there
ForeignFile(s) ==
    CASE s = "EdgeTTSService" -> GttsCachePath(<<"O", "i">>, "normal")
      [] s = "GoogleTTSService" ->
            EdgeCachePath(<<"O", "i">>, "pt-BR-FranciscaNeural", "+0%")
      [] s = "PiperTTSService" -> CoquiCachePath(<<"O", "i">>, "normal")
      [] s = "CoquiTTSService" -> PiperCachePath(<<"O", "i">>, 10)

InitialDirs(s) ==
    {ForeignFile(s) :> [st |-> "full",
                        by |-> [text |-> <<"O", "i">>, voice |-> None, speed |-> "normal"]]}

InitTTS ==
    /\ svc \in Services
    /\ backend \in Backends(svc)
    /\ fs \in InitialDirs(svc)
    /\ engineCalls = 0
    /\ last = NoCall
    \* no code inserts a row into audio_cache: the table starts and stays empty
    /\ audio_cache = EmptyDir
    /\ CleanIdle
    /\ FixIdle
    /\ OwnIdle
    /\ ChatIdle
    /\ AiIdle
    /\ SingIdle
    /\ RaceIdle
    /\ SpeakIdle

NextTTS ==
    \/ \E req \in Requests("EdgeTTSService") : EdgeGenerateSpeech(req)
    \/ \E req \in Requests("GoogleTTSService") : GttsGenerateSpeech(req)
    \/ \E req \in Requests("PiperTTSService") : PiperGenerateSpeech(req)
    \/ \E req \in Requests("CoquiTTSService") : CoquiGenerateSpeech(req)
    \/ ClearCache
    \/ GetCacheStats
    \/ InstallModel

SpecTTS == InitTTS /\ [][NextTTS]_vars


-----------------------------------------------------------------------------
(* Properties of the TTS services *)

\* a call of generate_speech(req) on the instance, whichever class it has
GenerateSpeech(req) ==
    \/ EdgeGenerateSpeech(req)
    \/ GttsGenerateSpeech(req)
    \/ PiperGenerateSpeech(req)
    \/ CoquiGenerateSpeech(req)

\* C1: cache-aside for speech. When a generate_speech call with use_cache=True
\* has returned a result, the next call with the same arguments returns a
\* result with cached=True and the same audio_path and audio_url, and does not
\* invoke the engine again.
C1_CacheAsideSpeech ==
    [][\A req \in Requests(svc) :
         ( /\ last.op = "generate_speech"
           /\ last.kind = "result"
           /\ last.req = req
           /\ req.use_cache
           /\ GenerateSpeech(req) )
         => ( /\ last'.kind = "result"
              /\ last'.cached
              /\ last'.audio_path = last.audio_path
              /\ last'.audio_url = last.audio_url
              /\ ~last'.invoked
              /\ engineCalls' = engineCalls )]_vars

\* C3: degradation never pollutes the cache. When a generate_speech call that
\* found no entry under its key ran the engine and ended in failure (returned
\* None), the lookup of that key still finds no entry afterwards, so the next
\* call with use_cache=True cannot report cached=True.
C3_FailureLeavesNoEntry ==
    ( /\ last.op = "generate_speech"
      /\ last.kind = None
      /\ last.invoked
      /\ ~last.entry_before )
    => ~IsHit(svc, fs, KeyOf(svc, last.req))

\* the instance cannot run its engine: the library or executable is missing,
\* or the model is neither loaded nor there to be loaded
BackendUnavailable ==
    CASE svc \in {"EdgeTTSService", "GoogleTTSService"} -> ~backend.available
      [] svc = "PiperTTSService" ->
            ~backend.available \/ (~backend.loaded /\ ~backend.model_on_disk)
      [] svc = "CoquiTTSService" -> ~backend.loaded /\ ~backend.model_on_disk

\* the call met a backend that is unavailable, or whose run raised, exited
\* non-zero or timed out (Coqui answers from its cache before it looks at the
\* backend)
BackendFailed ==
    /\ last.op = "generate_speech"
    /\ \/ last.invoked /\ Raises(last.outcome)
       \/ BackendUnavailable /\ ~(svc = "CoquiTTSService" /\ last.cached)

UrlBase(s) ==
    IF s \in {"EdgeTTSService", "PiperTTSService"}
      THEN "/audio_cache_pt/"
      ELSE "http://localhost:8000/audio_cache_pt/"

\* the address of a request: a function of text, voice and speed alone
AddressOf(s, text, voice, speed) ==
    LET req == [text |-> text, language |-> "pt-BR", voice |-> voice,
                speed |-> speed, use_cache |-> TRUE]
    IN  [audio_path |-> PathOf(KeyOf(s, req)),
         audio_url |-> UrlOf(UrlBase(s), KeyOf(s, req))]

C7_HitsOwnEntry ==
    (last.op = "generate_speech" /\ last.kind = "result" /\ last.cached)
    => fs[KeyOf(svc, last.req)].by = Params(last.req)


\* C13: a failed lazy initialisation is permanent. After a generate_speech
\* call whose initialisation of the backend failed (Piper found no model,
\* the Coqui model failed to load), the next generate_speech call neither
\* attempts the initialisation again nor runs the engine.
C13_InitFailurePermanent ==
    [][\A req \in Requests(svc) :
         ( /\ last.op = "generate_speech"
           /\ last.outcome = "init_failed"
           /\ GenerateSpeech(req) )
         => ( /\ last'.outcome # "init_failed"
              /\ ~last'.invoked
              /\ backend'.loaded = backend.loaded )]_vars


\* the prefix _get_cache_path gives the files of each service
OwnPrefix(s) ==
    CASE s = "EdgeTTSService" -> "edge_"
      [] s = "GoogleTTSService" -> "gtts_pt_"
      [] s = "PiperTTSService" -> "piper_pt_"
      [] s = "CoquiTTSService" -> "coqui_"

\* the cache entries of the service: its files that its lookup accepts
Entries(s, dir) == {n \in DOMAIN dir : n.prefix = OwnPrefix(s) /\ IsHit(s, dir, n)}

\* the engine run opened the output file and wrote to it
Writes(o) == o \in {"ok", "ok_empty", "err_empty", "err_partial"}

\* C21: cache entry lifecycle. No generate_speech call, for the same key or
\* for another, changes, rewrites or removes a cache entry that exists when
\* the call starts; only clear_cache ends an entry.
C21_EntryImmutable ==
    [][\A req \in Requests(svc) :
         GenerateSpeech(req)
         => \A n \in Entries(svc, fs) :
              /\ n \in DOMAIN fs'
              /\ fs'[n] = fs[n]
              /\ ~(n = KeyOf(svc, req) /\ last'.invoked /\ Writes(last'.outcome))]_vars

\* C23: the cached flag is truthful. A result of generate_speech has
\* cached=True exactly when an entry for the request's key existed when the
\* call started, use_cache was True and the engine was not invoked; it has
\* cached=False exactly when the engine was invoked once and did not fail.
C23_CachedFlagTruthful ==
    [][(last'.op = "generate_speech" /\ last'.kind = "result")
       => /\ last'.cached <=> ( /\ IsHit(svc, fs, KeyOf(svc, last'.req))
                                 /\ last'.req.use_cache
                                 /\ engineCalls' = engineCalls )
          /\ ~last'.cached <=> ( /\ engineCalls' = engineCalls + 1
                                  /\ ~Raises(last'.outcome) )]_vars

\* C23 witness: a call that bypassed an existing entry, ran the engine and
\* returned cached=False
C23_Witness ==
    /\ last.op = "generate_speech"
    /\ last.kind = "result"
    /\ ~last.cached
    /\ last.entry_before
    /\ ~last.req.use_cache
    /\ last.invoked

\* C24: cache bypass overwrites. A generate_speech call with use_cache=False
\* that returns a result has invoked the engine, whatever entry existed, and
\* has written the entry of the request's key anew, so that the lookup of a
\* following call with use_cache=True hits the artifact just written.
C24_BypassOverwrites ==
    [][\A req \in Requests(svc) :
         (~req.use_cache /\ GenerateSpeech(req) /\ last'.kind = "result")
         => /\ last'.invoked
            /\ ~last'.cached
            /\ Writes(last'.outcome)
            /\ IsHit(svc, fs', KeyOf(svc, req))
            /\ fs'[KeyOf(svc, req)].by = Params(req)]_vars

C26_StatsCountEntries ==
    last.op = "get_cache_stats" => last.total_files = Cardinality(Entries(svc, fs))

\* plays_count of the row of a file; Column(Integer, default=0)
PlaysCount(table, name) == IF name \in DOMAIN table THEN table[name].plays_count ELSE 0

\* C27: hit counting. Every cache hit increments the counter of the entry
\* that was served by exactly one.
C27_HitCounted ==
    [][\A req \in Requests(svc) :
         (GenerateSpeech(req) /\ last'.kind = "result" /\ last'.cached)
         => /\ KeyOf(svc, req) \in DOMAIN audio_cache'
            /\ PlaysCount(audio_cache', KeyOf(svc, req))
                 = PlaysCount(audio_cache, KeyOf(svc, req)) + 1]_vars

\* two requests that differ at most by whitespace around the text
SameButWhitespace(r1, r2) ==
    /\ Strip(r1.text) = Strip(r2.text)
    /\ r1.language = r2.language
    /\ r1.voice = r2.voice
    /\ r1.speed = r2.speed

\* C28: key normalization. When a call has returned a result whose artifact
\* is in the cache, a following call with use_cache=True whose text differs
\* only by leading or trailing whitespace is a cache hit on that artifact.
C28_KeyNormalized ==
    [][\A req \in Requests(svc) :
         ( /\ last.op = "generate_speech"
           /\ last.kind = "result"
           /\ IsHit(svc, fs, KeyOf(svc, last.req))
           /\ SameButWhitespace(req, last.req)
           /\ req.use_cache
           /\ GenerateSpeech(req) )
         => ( /\ last'.kind = "result"
              /\ last'.cached
              /\ last'.audio_path = last.audio_path )]_vars

-----------------------------------------------------------------------------
(* BrazilianTTSService, the wrapper that holds the Edge service in self.tts *)

\* the calls made of BrazilianTTSService.generate_speech; speed in hundredths
BrazilianRequests == [text : TtsTexts, speed : {75, 85, 100, 115}, use_cache : BOOLEAN]

\* the thresholds read as strict comparisons
speed_name_strict(speed) ==
    IF speed < 85 THEN "slow" ELSE IF speed > 115 THEN "fast" ELSE "normal"

\* if speed <= 0.85: "slow" / elif speed >= 1.15: "fast" / else: "normal"
speed_name(speed) ==
    IF speed <= 85 THEN "slow" ELSE IF speed >= 115 THEN "fast" ELSE "normal"

\* the arguments of self.tts.generate_speech(...)
BrazilianEdgeCall(b) ==
    [text |-> b.text, language |-> "pt-BR", voice |-> "pt-BR-FranciscaNeural",
     speed |-> speed_name(b.speed), use_cache |-> b.use_cache]

\* BrazilianTTSService.generate_speech: self.tts is None when edge-tts could
\* not be imported; otherwise the result of the Edge service is returned as
\* it is
BrazilianGenerateSpeech(b) ==
    /\ svc = "EdgeTTSService"
    /\ IF ~backend.available
         THEN /\ last' = NoResult(BrazilianEdgeCall(b), "not_invoked", FALSE)
              /\ UNCHANGED <<svc, backend, fs, engineCalls, audio_cache, cleanVars,
                             fixVars, aiVars, singVars, raceVars, ownVars, chatVars, speakVars>>
         ELSE EdgeGenerateSpeech(BrazilianEdgeCall(b))

InitBrazilian ==
    /\ InitTTS
    /\ svc = "EdgeTTSService"

NextBrazilian ==
    \/ \E b \in BrazilianRequests : BrazilianGenerateSpeech(b)
    \/ \E req \in Requests("EdgeTTSService") : EdgeGenerateSpeech(req)
    \/ ClearCache

SpecBrazilian == InitBrazilian /\ [][NextBrazilian]_vars

\* the call of the Edge service that the wrapper's call stands for: pt-BR,
\* the Francisca voice, slow up to 0.85, fast from 1.15, normal between
EdgeEquivalent(b) ==
    [text |-> b.text, language |-> "pt-BR", voice |-> "pt-BR-FranciscaNeural",
     speed |-> CASE b.speed <= 85 -> "slow" [] b.speed >= 115 -> "fast"
                 [] OTHER -> "normal",
     use_cache |-> b.use_cache]

\* C35: BrazilianTTSService is a thin wrapper over the Edge service. Every
\* generate_speech(text, speed, use_cache) of the wrapper is the step
\* EdgeTTSService.generate_speech(text, 'pt-BR', 'pt-BR-FranciscaNeural', s,
\* use_cache) on the same cache, with s = slow for speed <= 0.85, fast for
\* speed >= 1.15 and normal otherwise, and returns what that step returns;
\* an entry the wrapper stored is a hit for the Edge service's own call with
\* the default voice; and while Edge-TTS is unavailable the wrapper returns
\* None and does not touch the cache.
C35_ThinWrapper ==
    [][/\ \A b \in BrazilianRequests :
            BrazilianGenerateSpeech(b)
            => IF backend.available
                 THEN EdgeGenerateSpeech(EdgeEquivalent(b))
                 ELSE /\ last'.kind = None
                      /\ ~last'.invoked
                      /\ ~last'.entry_before
                      /\ fs' = fs
                      /\ engineCalls' = engineCalls
       /\ \A req \in Requests("EdgeTTSService") :
            ( /\ last.op = "generate_speech"
              /\ last.kind = "result"
              /\ last.req.voice = "pt-BR-FranciscaNeural"
              /\ req = [last.req EXCEPT !.voice = None, !.use_cache = TRUE]
              /\ EdgeGenerateSpeech(req) )
            => ( /\ last'.kind = "result"
                 /\ last'.cached
                 /\ last'.audio_path = last.audio_path )]_vars

\* C35 witness: the wrapper was asked for speed 0.85 and served the entry
\* the Edge service had stored for its own slow call with the default voice
C35_Witness ==
    /\ last.op = "generate_speech"
    /\ last.kind = "result"
    /\ last.req.voice = "pt-BR-FranciscaNeural"
    /\ last.req.speed = "slow"
    /\ last.cached
    /\ last.audio_path.name \in DOMAIN fs
    /\ fs[last.audio_path.name].by.voice = None

\* the emoji among the characters of the texts: GRINNING FACE and THINKING FACE
Emojis == {"<U+1F600>", "<U+1F914>"}

\* C39: Coqui rejects empty input without side effects. generate_speech with
\* a text that is empty, whitespace-only or made of emojis only returns None
\* without loading the model, without invoking the engine and without
\* creating or reading a cache entry.
C39_EmptyInputRejected ==
    [][( /\ svc = "CoquiTTSService"
         /\ last'.op = "generate_speech"
         /\ \/ Strip(last'.req.text) = <<>>
            \/ \A i \in 1..Len(last'.req.text) : last'.req.text[i] \in Emojis )
       => ( /\ last'.kind = None
            /\ last'.outcome = "not_invoked"
            /\ backend' = backend
            /\ engineCalls' = engineCalls
            /\ fs' = fs )]_vars

\* C32: engine-scoped clear on a shared directory. clear_cache of a service
\* removes only files that service created: every file another service
\* stored in the shared directory is still there, unchanged, after it.
C32_ClearScoped ==
    [][ClearCache
       => \A n \in DOMAIN fs :
            n.prefix # OwnPrefix(svc) => (n \in DOMAIN fs' /\ fs'[n] = fs[n])]_vars

-----------------------------------------------------------------------------
(* AIService: the generators over GeminiClient.generate_response *)

\* JSON documents the backend can answer with, each one token of the text,
\* and what json.loads makes of them: the Python type and, of a list, its length
JsonDoc ==
    ("<json:dict>" :> [py |-> "dict", len |-> 0]) @@
    ("<json:list>" :> [py |-> "list", len |-> 2]) @@
    ("<json:null>" :> [py |-> "NoneType", len |-> 0])

\* json.loads: surrounding whitespace is skipped, anything else around the
\* document is a JSONDecodeError
JsonLoads(s) ==
    LET t == Strip(s)
    IN  IF Len(t) = 1 /\ t[1] \in DOMAIN JsonDoc
          THEN [ok |-> TRUE, doc |-> t[1]]
          ELSE [ok |-> FALSE, doc |-> ""]

\* str.split('\n')
RECURSIVE SplitLines(_)
SplitLines(s) ==
    IF \A i \in 1..Len(s) : s[i] # "\n" THEN <<s>>
    ELSE LET i == Min({j \in 1..Len(s) : s[j] = "\n"})
         IN  <<SubSeq(s, 1, i - 1)>> \o SplitLines(SubSeq(s, i + 1, Len(s)))

\* the lines generate_fun_facts keeps
FactLines(resp) ==
    LET lines == SplitLines(Strip(resp))
        kept(l) == Strip(l) # <<>> /\ ~StartsWith(Strip(l), <<"#">>)
    IN  SelectSeq(lines, kept)

\* what generate_response can do: raise, or return one of these texts
RawOutputs ==
    { <<"<json:dict>">>,
      <<"<json:list>">>,
      <<"<json:null>">>,
      FenceJson \o <<"\n", "<json:dict>", "\n">> \o Fence,
      FenceJson \o <<"\n", "[", "\n">> \o Fence,
      <<"x", "\n", "#", "\n", " ", "\n", "x">>,
      EsseE \o <<" ", "a", " ", "M", "E", "S", "A">> }

BackendOutcomes ==
    {[raised |-> TRUE, text |-> <<>>]} \cup {[raised |-> FALSE, text |-> t] : t \in RawOutputs}

\* the calls made of AIService
AiWord == <<"s", "u", "n">>
AiTranslations == { <<"m", "e", "s", "a">>, <<"s", "o", "l">> }
GameTypes == {"guess_word", "anagram", "quick_quiz", "missing_letters"}

AiCall(op, translation, difficulty, num, extra) ==
    [op |-> op, word |-> AiWord, translation |-> translation,
     difficulty |-> difficulty, num |-> num, extra |-> extra]

AiCalls ==
    {AiCall("generate_intro", t, 0, 0, <<>>) : t \in AiTranslations}
    \cup {AiCall("generate_contextual_phrases", <<"s", "o", "l">>, d, n, <<>>) :
            d \in {1, 3, 4}, n \in {2, 5}}
    \cup {AiCall("generate_word_breakdown", <<"s", "o", "l">>, 0, 0, <<>>)}
    \cup {AiCall("generate_fun_facts", <<"s", "o", "l">>, 0, n, <<>>) : n \in {1, 5}}
    \cup {AiCall("generate_quiz", <<"s", "o", "l">>, 1, 3, <<>>)}
    \cup {AiCall("chat_with_object", <<"s", "o", "l">>, 0, 0, m) :
            m \in { <<"u", "s", "a", "r">>, <<"c", "o", "m", "o", " ", "f", "a", "l", "a">>,
                    <<"o", "i">> }}
    \cup {AiCall("generate_game", <<"s", "o", "l">>, 0, 0, <<g>>) :
            g \in {"guess_word", "anagram", "crossword"}}

\* no answer of the backend: it was not asked
NoOutcome == [raised |-> FALSE, text |-> <<>>]

\* what a call returned; raw is what the backend answered, kept beside the
\* return value to tell which answer led to it; options and correct_answer
\* are those of the one question of a canned quiz
AiReturn(call, kind, source, py, value, text, items, invoked) ==
    [call |-> call, kind |-> kind, source |-> source, py |-> py, value |-> value,
     text |-> text, items |-> items, from_cache |-> FALSE, invoked |-> invoked,
     raw |-> NoOutcome, options |-> <<>>, correct_answer |-> <<>>]

\* the generator returned the dictionary it built around the backend's answer
FromBackend(call, value, text, items) ==
    AiReturn(call, "artifact", "backend", "dict", value, text, items, TRUE)

\* the generator returned what json.loads gave it, as it is
Parsed(call, doc) ==
    AiReturn(call, IF JsonDoc[doc].py = "NoneType" THEN None ELSE "artifact",
             "backend", JsonDoc[doc].py, doc, <<>>, JsonDoc[doc].len, TRUE)

\* the generator returned its canned content
Fallback(call, value, text, items, invoked) ==
    AiReturn(call, "artifact", "fallback", "dict", value, text, items, invoked)

\* the exception left the generator
Raised(call, exc) ==
    AiReturn(call, "raised", "none", "NoneType", exc, <<>>, 0, FALSE)


\* the backend may be invoked this often in one behaviour
MaxBackendCalls == 2

\* generate_intro, its except branch: the canned introduction
FallbackIntroText(translation) ==
    LET article == IF EndsWith(Lower(translation), <<"a">>) THEN <<"a">> ELSE <<"o">>
        demonstrative == IF article = <<"a">> THEN EssaE ELSE EsseE
    IN  <<"O", "l", "<a-acute>", "!", " ", "<U+1F4DA>", " ">> \o demonstrative \o <<" ">>
        \o article \o <<" ">> \o Upper(translation) \o <<"!", " ", "<Usamos...>">>

\* the except branch of generate_intro
generate_intro_except(call, invoked) ==
    Fallback(call, "intro_text", FallbackIntroText(call.translation), 0, invoked)

generate_intro(call, out) ==
    IF out.raised
      THEN generate_intro_except(call, TRUE)
      ELSE FromBackend(call, "intro_text",
                       _fix_portuguese_grammar(Strip(out.text), call.translation), 0)

\* fallback_phrases[:num] of the three canned phrases
_get_fallback_phrases(call, invoked) ==
    Fallback(call, "fallback_phrases", <<>>, Min({Max({call.num, 0}), 3}), invoked)

\* complexity_guide[difficulty] is evaluated while the prompt is built,
\* before the try block
complexity_guide == {1, 2, 3}

generate_contextual_phrases(call, out) ==
    IF out.raised THEN _get_fallback_phrases(call, TRUE)
    ELSE LET phrases == JsonLoads(Strip(out.text))
         IN  IF ~phrases.ok THEN _get_fallback_phrases(call, TRUE)
             ELSE FromBackend(call, phrases.doc, <<>>, JsonDoc[phrases.doc].len)

\* the except branch of generate_word_breakdown: one syllable, the word itself
generate_word_breakdown_except(call, invoked) ==
    Fallback(call, "fallback_breakdown", <<"/">> \o call.word \o <<"/">>, 1, invoked)

generate_word_breakdown(call, out) ==
    IF out.raised THEN generate_word_breakdown_except(call, TRUE)
    ELSE LET result == JsonLoads(Strip(out.text))
         IN  IF ~result.ok THEN generate_word_breakdown_except(call, TRUE)
             ELSE Parsed(call, result.doc)

\* the except branch of generate_fun_facts: three canned facts
generate_fun_facts_except(call, invoked) ==
    Fallback(call, "fallback_fun_facts", <<>>, 3, invoked)

generate_fun_facts(call, out) ==
    IF out.raised THEN generate_fun_facts_except(call, TRUE)
    ELSE FromBackend(call, "fun_facts", <<>>, Min({call.num, Len(FactLines(out.text))}))

\* the except branch of generate_quiz: one question, the word its answer
generate_quiz_except(call, invoked) ==
    [Fallback(call, "fallback_quiz", call.word, 1, invoked)
       EXCEPT !.options = <<call.word, <<"o", "u", "t", "r", "o", "1">>,
                            <<"o", "u", "t", "r", "o", "2">>,
                            <<"o", "u", "t", "r", "o", "3">> >>,
              !.correct_answer = call.word]

generate_quiz(call, out) ==
    IF out.raised THEN generate_quiz_except(call, TRUE)
    ELSE LET quiz == JsonLoads(Strip(out.text))
         IN  IF ~quiz.ok THEN generate_quiz_except(call, TRUE)
             ELSE Parsed(call, quiz.doc)

\* the canned answer is picked by keywords of the lower-cased message
_get_fallback_chat_response(call, invoked) ==
    LET msg_lower == Lower(call.extra)
        any(keywords) == \E k \in keywords : Contains(msg_lower, k)
    IN  IF any({ <<"f", "r", "a", "s", "e">>, <<"e", "x", "e", "m", "p", "l", "o">>,
                 <<"u", "s", "a", "r">> })
          THEN Fallback(call, "fallback_chat_examples", <<>>, 2, invoked)
        ELSE IF any({ <<"p", "r", "o", "n", "u", "n", "c", "i", "a">>,
                      <<"c", "o", "m", "o", " ", "f", "a", "l", "a">>,
                      <<"p", "r", "o", "n", "<u-acute>", "n", "c", "i", "a">> })
          THEN Fallback(call, "fallback_chat_pronunciation", <<>>, 0, invoked)
        ELSE Fallback(call, "fallback_chat_generic", <<>>, 0, invoked)

\* as if the unparsed answer were handed on as the bot's response
chat_with_object_raw(call, out) ==
    IF out.raised THEN _get_fallback_chat_response(call, TRUE)
    ELSE LET result == JsonLoads(_clean_json_response(out.text))
         IN  IF ~result.ok THEN Fallback(call, "bot_response", out.text, 0, TRUE)
             ELSE IF JsonDoc[result.doc].py # "dict"
               THEN _get_fallback_chat_response(call, TRUE)
             ELSE FromBackend(call, result.doc, <<>>, 0)

chat_with_object(call, out) ==
    IF out.raised THEN _get_fallback_chat_response(call, TRUE)
    ELSE LET result == JsonLoads(_clean_json_response(out.text))
         IN  IF ~result.ok THEN _get_fallback_chat_response(call, TRUE)
             \* result["generation_time_ms"] = ... raises TypeError unless a dict
             ELSE IF JsonDoc[result.doc].py # "dict"
               THEN _get_fallback_chat_response(call, TRUE)
             ELSE FromBackend(call, result.doc, <<>>, 0)

\* related_vocab of _get_fallback_game, the English words of each entry
related_vocab ==
    (<<"s", "o", "f", "a">> :>
        << <<"c", "u", "s", "h", "i", "o", "n">>, <<"a", "r", "m", "r", "e", "s", "t">>,
           <<"f", "a", "b", "r", "i", "c">> >>) @@
    (<<"t", "a", "b", "l", "e">> :>
        << <<"c", "h", "a", "i", "r">>, <<"t", "a", "b", "l", "e", "c", "l", "o", "t", "h">>,
           <<"s", "u", "r", "f", "a", "c", "e">> >>) @@
    (<<"t", "v">> :>
        << <<"r", "e", "m", "o", "t", "e">>, <<"s", "c", "r", "e", "e", "n">>,
           <<"b", "u", "t", "t", "o", "n">> >>)

\* related_vocab.get(word.lower(), [])
related_words_no_default(w) ==
    IF Lower(w) \in DOMAIN related_vocab THEN related_vocab[Lower(w)] ELSE <<>>

\* related_vocab.get(word.lower(), [part, use, object])
related_words(w) ==
    IF Lower(w) \in DOMAIN related_vocab THEN related_vocab[Lower(w)]
    ELSE << <<"p", "a", "r", "t">>, <<"u", "s", "e">>, <<"o", "b", "j", "e", "c", "t">> >>

\* s[::-1]
Reversed(s) == [i \in 1..Len(s) |-> s[Len(s) + 1 - i]]

\* en[0] + "_" * (len(en) - 2) + en[-1]; a negative count repeats nothing
MissingPattern(en) ==
    <<en[1]>> \o [i \in 1..Max({Len(en) - 2, 0}) |-> "_"] \o <<en[Len(en)]>>

\* every game type answered with the guess_word game
_get_fallback_game_guess(call, invoked) ==
    Fallback(call, "fallback_game", related_words(call.word)[1], 3, invoked)

\* related_words[0] and en[0], en[-1] raise IndexError on an empty sequence
_get_fallback_game(call, invoked) ==
    LET game_type == call.extra[1]
        words == related_words(call.word)
    IN  IF Len(words) = 0 THEN Raised(call, "IndexError")
        ELSE LET en == words[1]
             IN  CASE game_type = "guess_word" ->
                        Fallback(call, "fallback_game", en, 3, invoked)
                   [] game_type = "anagram" ->
                        Fallback(call, "fallback_game", Reversed(en), 0, invoked)
                   [] game_type = "quick_quiz" ->
                        [Fallback(call, "fallback_game", call.word, 1, invoked)
                           EXCEPT !.options = <<call.word, <<"o", "t", "h", "e", "r", "1">>,
                                                <<"o", "t", "h", "e", "r", "2">>,
                                                <<"o", "t", "h", "e", "r", "3">> >>,
                                  !.correct_answer = call.word]
                   [] game_type = "missing_letters" ->
                        IF Len(en) = 0 THEN Raised(call, "IndexError")
                        ELSE Fallback(call, "fallback_game", MissingPattern(en),
                                      Max({Len(en) - 2, 0}), invoked)
                   \* {"game_type": game_type, "error": "Game type not supported"}
                   [] OTHER ->
                        Fallback(call, "game_type_not_supported", <<game_type>>, 0,
                                 invoked)

generate_game(call, out) ==
    IF out.raised THEN _get_fallback_game(call, TRUE)
    ELSE LET result == JsonLoads(_clean_json_response(out.text))
         IN  IF ~result.ok THEN _get_fallback_game(call, TRUE)
             \* result["game_type"] = ... raises TypeError unless a dict
             ELSE IF JsonDoc[result.doc].py # "dict" THEN _get_fallback_game(call, TRUE)
             ELSE FromBackend(call, result.doc, <<>>, 0)

\* one call of gemini_client.generate_response and what the generator makes
\* of its outcome
Generated(call, out) ==
    CASE call.op = "generate_intro" -> generate_intro(call, out)
      [] call.op = "generate_contextual_phrases" -> generate_contextual_phrases(call, out)
      [] call.op = "generate_word_breakdown" -> generate_word_breakdown(call, out)
      [] call.op = "generate_fun_facts" -> generate_fun_facts(call, out)
      [] call.op = "generate_quiz" -> generate_quiz(call, out)
      [] call.op = "chat_with_object" -> chat_with_object(call, out)
      [] call.op = "generate_game" -> generate_game(call, out)

Invoke(call) ==
    /\ backendCalls < MaxBackendCalls
    /\ backendCalls' = backendCalls + 1
    /\ \E out \in BackendOutcomes : aiLast' = [Generated(call, out) EXCEPT !.raw = out]

GenerateIntro(call) ==
    /\ call.op = "generate_intro"
    /\ Invoke(call)
    /\ aiPrev' = aiLast
    /\ UNCHANGED <<cleanVars, fixVars, ttsVars, singVars, raceVars, ownVars, chatVars, speakVars>>

GenerateContextualPhrases(call) ==
    /\ call.op = "generate_contextual_phrases"
    /\ IF call.difficulty \notin complexity_guide
         THEN /\ aiLast' = Raised(call, "KeyError")
              /\ UNCHANGED backendCalls
         ELSE Invoke(call)
    /\ aiPrev' = aiLast
    /\ UNCHANGED <<cleanVars, fixVars, ttsVars, singVars, raceVars, ownVars, chatVars, speakVars>>

GenerateWordBreakdown(call) ==
    /\ call.op = "generate_word_breakdown"
    /\ Invoke(call)
    /\ aiPrev' = aiLast
    /\ UNCHANGED <<cleanVars, fixVars, ttsVars, singVars, raceVars, ownVars, chatVars, speakVars>>

GenerateFunFacts(call) ==
    /\ call.op = "generate_fun_facts"
    /\ Invoke(call)
    /\ aiPrev' = aiLast
    /\ UNCHANGED <<cleanVars, fixVars, ttsVars, singVars, raceVars, ownVars, chatVars, speakVars>>

GenerateQuiz(call) ==
    /\ call.op = "generate_quiz"
    /\ Invoke(call)
    /\ aiPrev' = aiLast
    /\ UNCHANGED <<cleanVars, fixVars, ttsVars, singVars, raceVars, ownVars, chatVars, speakVars>>

ChatWithObject(call) ==
    /\ call.op = "chat_with_object"
    /\ Invoke(call)
    /\ aiPrev' = aiLast
    /\ UNCHANGED <<cleanVars, fixVars, ttsVars, singVars, raceVars, ownVars, chatVars, speakVars>>

GenerateGame(call) ==
    /\ call.op = "generate_game"
    /\ IF call.extra[1] \notin GameTypes
         THEN /\ aiLast' = _get_fallback_game(call, FALSE)
              /\ UNCHANGED backendCalls
         ELSE Invoke(call)
    /\ aiPrev' = aiLast
    /\ UNCHANGED <<cleanVars, fixVars, ttsVars, singVars, raceVars, ownVars, chatVars, speakVars>>

InitAI ==
    /\ aiLast = NoAiCall
    /\ aiPrev = NoAiCall
    /\ backendCalls = 0
    /\ CleanIdle
    /\ FixIdle
    /\ OwnIdle
    /\ ChatIdle
    /\ TtsIdle
    /\ SingIdle
    /\ RaceIdle
    /\ SpeakIdle

NextAI ==
    \E call \in AiCalls :
        \/ GenerateIntro(call)
        \/ GenerateContextualPhrases(call)
        \/ GenerateWordBreakdown(call)
        \/ GenerateFunFacts(call)
        \/ GenerateQuiz(call)
        \/ ChatWithObject(call)
        \/ GenerateGame(call)

SpecAI == InitAI /\ [][NextAI]_vars


-----------------------------------------------------------------------------
(* Properties of AIService *)

\* a call of the generator call.op with the parameters of call
AiGenerate(call) ==
    \/ GenerateIntro(call)
    \/ GenerateContextualPhrases(call)
    \/ GenerateWordBreakdown(call)
    \/ GenerateFunFacts(call)
    \/ GenerateQuiz(call)
    \/ ChatWithObject(call)
    \/ GenerateGame(call)

\* the text generators cache-aside is claimed for
TextGenerators ==
    {"generate_intro", "generate_contextual_phrases", "generate_word_breakdown",
     "generate_fun_facts", "generate_quiz"}

\* what the caller gets to see of the artifact
ArtifactOf(r) == <<r.py, r.value, r.text, r.items>>

\* C2: cache-aside for the text capabilities. When a text generator has
\* returned an artifact made from the backend's answer (not a fallback), the
\* next call with the same parameters returns the identical artifact, marked
\* as coming from the cache, and does not invoke the backend again.
C2_CacheAsideText ==
    [][\A call \in AiCalls :
         ( /\ call.op \in TextGenerators
           /\ aiLast.call = call
           /\ aiLast.kind = "artifact"
           /\ aiLast.source = "backend"
           /\ AiGenerate(call) )
         => ( /\ aiLast'.from_cache
              /\ ArtifactOf(aiLast') = ArtifactOf(aiLast)
              /\ ~aiLast'.invoked
              /\ backendCalls' = backendCalls )]_vars

\* C4: every generator of AIService returns an artifact, whatever the backend
\* does and whatever parameter values it is called with; it never raises and
\* never returns nothing.
C4_AlwaysArtifact == aiLast.call.op # "none" => aiLast.kind = "artifact"

-----------------------------------------------------------------------------
(* The canned introduction of generate_intro, handed to the correction *)

\* the translations: every string of at most this many characters
MaxTranslationLen == 3
TranslationChars == {"a", "o", "m", " "}
Translations == UNION {[1..n -> TranslationChars] : n \in 0..MaxTranslationLen}

\* the except branch of generate_intro builds the text
BuildFallbackIntro ==
    /\ fixPc = "in"
    /\ corrected' = [corrected EXCEPT !.once = FallbackIntroText(word)]
    /\ fixPc' = "intro"
    /\ UNCHANGED <<parts, word, cleanVars, ttsVars, aiVars, singVars, raceVars, ownVars, chatVars, speakVars>>

\* _fix_portuguese_grammar applied to that text with the same translation
FixFallbackIntro ==
    /\ fixPc = "intro"
    /\ corrected' = [corrected EXCEPT !.twice = _fix_portuguese_grammar(corrected.once, word)]
    /\ fixPc' = "fixed"
    /\ UNCHANGED <<parts, word, cleanVars, ttsVars, aiVars, singVars, raceVars, ownVars, chatVars, speakVars>>

InitIntro ==
    /\ word \in Translations
    /\ parts = <<>>
    /\ corrected = [once |-> <<>>, twice |-> <<>>]
    /\ fixPc = "in"
    /\ CleanIdle
    /\ OwnIdle
    /\ ChatIdle
    /\ TtsIdle
    /\ AiIdle
    /\ SingIdle
    /\ RaceIdle
    /\ SpeakIdle

NextIntro == BuildFallbackIntro \/ FixFallbackIntro

SpecIntro == InitIntro /\ [][NextIntro]_vars

\* C38: the fallback intro is already in agreed form. The text generate_intro
\* returns when the backend fails says 'Essa é a' exactly when the
\* translation ends in 'a' (in either case) and 'Esse é o' otherwise, and
\* _fix_portuguese_grammar applied to it with the same translation returns
\* it unchanged.
C38_FallbackIntroAgreed ==
    /\ fixPc \in {"intro", "fixed"}
         => /\ EndsInA(word) <=> Contains(corrected.once, EssaE \o <<" ", "a", " ">>)
            /\ ~EndsInA(word) <=> Contains(corrected.once, EsseE \o <<" ", "o", " ">>)
    /\ fixPc = "fixed" => corrected.twice = corrected.once

-----------------------------------------------------------------------------
(* The fallback generators of AIService and ExerciseService, called alone *)

\* ExerciseService: the canned exercises; the option, pair and word lists
\* hold the word itself beside fixed entries
\* options[correct_index] of a canned exercise, correct_index counted from 0
AtIndex(options, correct_index) == options[correct_index + 1]

\* options: [word, "chair", "table", "lamp"], correct_index: 0
_get_fallback_quiz(call, invoked) ==
    LET options == <<call.word, <<"c", "h", "a", "i", "r">>, <<"t", "a", "b", "l", "e">>,
                     <<"l", "a", "m", "p">> >>
    IN  [Fallback(call, "fallback_exercise_quiz", call.word, 4, invoked)
           EXCEPT !.options = options, !.correct_answer = AtIndex(options, 0)]

_get_fallback_fill_blank(call, invoked) ==
    Fallback(call, "fallback_exercise_fill_blank", call.word, 2, invoked)

\* options: [word, "chair", "table", "bed"], correct_index: 0
_get_fallback_listening(call, invoked) ==
    LET options == <<call.word, <<"c", "h", "a", "i", "r">>, <<"t", "a", "b", "l", "e">>,
                     <<"b", "e", "d">> >>
    IN  [Fallback(call, "fallback_exercise_listening", call.word, 4, invoked)
           EXCEPT !.options = options, !.correct_answer = AtIndex(options, 0)]

_get_fallback_word_match(call, invoked) ==
    Fallback(call, "fallback_exercise_word_match", call.word, 4, invoked)

_get_fallback_sentence_builder(call, invoked) ==
    Fallback(call, "fallback_exercise_sentence_builder", call.word, 5, invoked)

\* the fallback generators
FallbackNames ==
    {"_get_fallback_phrases", "_get_fallback_chat_response", "_get_fallback_game",
     "generate_intro.except", "generate_word_breakdown.except",
     "generate_fun_facts.except", "generate_quiz.except",
     "_get_fallback_quiz", "_get_fallback_fill_blank", "_get_fallback_listening",
     "_get_fallback_word_match", "_get_fallback_sentence_builder"}

\* the fallback named by call.op, called without any backend call around it
FallbackOf(call) ==
    CASE call.op = "_get_fallback_phrases" -> _get_fallback_phrases(call, FALSE)
      [] call.op = "_get_fallback_chat_response" -> _get_fallback_chat_response(call, FALSE)
      [] call.op = "_get_fallback_game" -> _get_fallback_game(call, FALSE)
      [] call.op = "generate_intro.except" -> generate_intro_except(call, FALSE)
      [] call.op = "generate_word_breakdown.except" ->
            generate_word_breakdown_except(call, FALSE)
      [] call.op = "generate_fun_facts.except" -> generate_fun_facts_except(call, FALSE)
      [] call.op = "generate_quiz.except" -> generate_quiz_except(call, FALSE)
      [] call.op = "_get_fallback_quiz" -> _get_fallback_quiz(call, FALSE)
      [] call.op = "_get_fallback_fill_blank" -> _get_fallback_fill_blank(call, FALSE)
      [] call.op = "_get_fallback_listening" -> _get_fallback_listening(call, FALSE)
      [] call.op = "_get_fallback_word_match" -> _get_fallback_word_match(call, FALSE)
      [] call.op = "_get_fallback_sentence_builder" ->
            _get_fallback_sentence_builder(call, FALSE)

\* the parameter values the fallbacks are called with
FallbackWords == { <<"s", "o", "f", "a">>, <<"T", "V">>, AiWord, <<>> }
MaxNumPhrases == 10

FallbackCalls ==
    {[op |-> "_get_fallback_phrases", word |-> w, translation |-> t,
      difficulty |-> d, num |-> n, extra |-> <<>>] :
        w \in {AiWord}, t \in {<<"s", "o", "l">>}, d \in {1, 3}, n \in 1..MaxNumPhrases}
    \cup {[op |-> "_get_fallback_chat_response", word |-> w, translation |-> <<"s", "o", "l">>,
           difficulty |-> 0, num |-> 0, extra |-> m] :
        w \in {AiWord},
        m \in { <<>>, <<"U", "S", "A", "R">>, <<"c", "o", "m", "o", " ", "f", "a", "l", "a">>,
                <<"o", "i">> }}
    \cup {[op |-> "_get_fallback_game", word |-> w, translation |-> <<"s", "o", "l">>,
           difficulty |-> 0, num |-> 0, extra |-> <<g>>] :
        w \in FallbackWords, g \in GameTypes \cup {"crossword"}}
    \cup {[op |-> o, word |-> w, translation |-> t, difficulty |-> 1, num |-> 3,
           extra |-> <<>>] :
        o \in FallbackNames \ {"_get_fallback_phrases", "_get_fallback_chat_response",
                               "_get_fallback_game"},
        w \in {AiWord, <<>>, <<"t", "a", "b", "l", "e">>}, t \in {<<"m", "e", "s", "a">>}}

\* one call of a fallback generator
CallFallback(call) ==
    /\ aiLast' = FallbackOf(call)
    /\ aiPrev' = aiLast
    /\ backendCalls' = backendCalls + (IF aiLast'.invoked THEN 1 ELSE 0)
    /\ UNCHANGED <<cleanVars, fixVars, ttsVars, singVars, raceVars, ownVars, chatVars, speakVars>>

InitFallback ==
    /\ aiLast = NoAiCall
    /\ aiPrev = NoAiCall
    /\ backendCalls = 0
    /\ CleanIdle
    /\ FixIdle
    /\ OwnIdle
    /\ ChatIdle
    /\ TtsIdle
    /\ SingIdle
    /\ RaceIdle
    /\ SpeakIdle

NextFallback == \E call \in FallbackCalls : CallFallback(call)

SpecFallback == InitFallback /\ [][NextFallback]_vars

\* C11: every fallback generator returns an artifact (a dictionary of canned
\* content) for every parameter value, never raises, and calls no backend.
C11_FallbackTotal ==
    aiLast.call.op \in FallbackNames
      => ( /\ aiLast.kind = "artifact"
           /\ aiLast.py = "dict"
           /\ aiLast.source = "fallback"
           /\ ~aiLast.invoked
           /\ backendCalls = 0 )

\* the missing-letters fallback game has been built for a word outside the
\* related vocabulary
C11_Witness ==
    /\ aiLast.call.op = "_get_fallback_game"
    /\ aiLast.call.extra = <<"missing_letters">>
    /\ aiLast.call.word = <<>>
    /\ aiLast.text = <<"p", "_", "_", "t">>

\* the artifact is one of the canned multiple-choice questions
QuizLike(r) ==
    \/ r.call.op \in {"generate_quiz.except", "_get_fallback_quiz", "_get_fallback_listening"}
    \/ r.call.op = "_get_fallback_game" /\ r.call.extra = <<"quick_quiz">>

\* C37: fallback multiple-choice artifacts are answerable. In the fallback
\* quiz of AIService, its quick_quiz fallback game and the quiz and listening
\* fallbacks of ExerciseService, the marked correct answer is the requested
\* word and the options hold that word exactly once, for every word.
C37_FallbackAnswerable ==
    QuizLike(aiLast)
      => ( /\ aiLast.correct_answer = aiLast.call.word
           /\ Cardinality({i \in DOMAIN aiLast.options :
                             aiLast.options[i] = aiLast.call.word}) = 1 )

-----------------------------------------------------------------------------
(* Malformed backend output *)

\* json.loads raises JSONDecodeError on the text generate_contextual_phrases
\* hands it (the stripped answer, fences and all)
PhrasesParseFails(r) ==
    /\ r.call.op = "generate_contextual_phrases"
    /\ r.invoked
    /\ ~r.raw.raised
    /\ ~JsonLoads(Strip(r.raw.text)).ok

\* C12: when the backend's answer to generate_contextual_phrases does not
\* parse, the result is the fallback phrase set, it is not marked as coming
\* from the cache, and it holds exactly num_phrases phrases.
C12_MalformedPhrases ==
    PhrasesParseFails(aiLast)
      => ( /\ aiLast.source = "fallback"
           /\ aiLast.value = "fallback_phrases"
           /\ ~aiLast.from_cache
           /\ aiLast.items = aiLast.call.num )

\* the generators that parse the answer as JSON, and the text they parse:
\* the stripped answer, or the answer without its markdown fence
JsonGenerators ==
    {"generate_contextual_phrases", "generate_word_breakdown", "generate_quiz",
     "chat_with_object", "generate_game"}

ParsedText(r) ==
    IF r.call.op \in {"chat_with_object", "generate_game"}
      THEN _clean_json_response(r.raw.text)
      ELSE Strip(r.raw.text)

\* json.loads raised JSONDecodeError on the backend's answer to the call
ParseFails(r) ==
    /\ r.call.op \in JsonGenerators
    /\ r.invoked
    /\ ~r.raw.raised
    /\ ~JsonLoads(ParsedText(r)).ok

StructuredGenerators ==
    {"generate_contextual_phrases", "generate_word_breakdown", "generate_quiz",
     "chat_with_object", "generate_game"}

\* a JSON document inside a ```json ... ``` fence
Fenced(doc) == FenceJson \o <<"\n", doc, "\n">> \o Fence

\* C22: envelope stripping precedes parsing. When the backend answers a
\* structured generator with valid JSON wrapped in a ```json fence, the
\* generator parses it and returns the artifact made from it, not a fallback.
C22_FencedJsonParsed ==
    ( /\ aiLast.call.op \in StructuredGenerators
      /\ aiLast.invoked
      /\ ~aiLast.raw.raised
      /\ aiLast.raw.text = Fenced("<json:dict>") )
    => (aiLast.kind = "artifact" /\ aiLast.source = "backend")

\* C31: generate_game with a game_type outside guess_word, anagram,
\* quick_quiz and missing_letters returns the dictionary that echoes the
\* requested type with the error 'Game type not supported', without invoking
\* the backend.
C31_UnknownGameType ==
    (aiLast.call.op = "generate_game" /\ aiLast.call.extra[1] \notin GameTypes)
      => ( /\ aiLast.kind = "artifact"
           /\ aiLast.py = "dict"
           /\ aiLast.value = "game_type_not_supported"
           /\ aiLast.text = <<aiLast.call.extra[1]>>
           /\ aiLast.items = 0
           /\ ~aiLast.invoked
           /\ aiLast.raw = NoOutcome )

\* a crossword game was requested after the backend had served another call,
\* and the count of backend calls did not move
C31_Witness ==
    /\ aiLast.call.op = "generate_game"
    /\ aiLast.call.extra[1] = "crossword"
    /\ aiPrev.invoked
    /\ backendCalls = 1

\* C34: generate_fun_facts returns at most num_facts facts, none of them
\* empty, whether the facts come from the backend or from the fallback.
C34_FactsBounded ==
    (aiLast.call.op = "generate_fun_facts" /\ aiLast.kind = "artifact")
      => (aiLast.items <= aiLast.call.num)

-----------------------------------------------------------------------------
(* The singleton accessors and the lazy engine of CoquiTTSService, called by
   concurrent callers: the steps between which another caller can run *)

Accessors ==
    {"get_edge_tts", "get_gtts", "get_piper_tts", "get_coqui_tts", "get_brazilian_tts"}

\* a fresh service instance: CoquiTTSService starts with model_loaded False
\* and no engine
NewInstance(cache_dir) ==
    [model_loaded |-> FALSE, engines |-> 0, cache_dir |-> cache_dir]

\* the cache_dir a caller may pass: get_edge_tts and get_coqui_tts take the
\* argument, the other accessors construct with the default
CacheDirs(a) ==
    IF a \in {"get_edge_tts", "get_coqui_tts"}
      THEN {"./audio_cache_pt", "./audio_cache_en"}
      ELSE {"./audio_cache_pt"}

\* the caller enters the accessor, for the first time or again
GetCall(t) ==
    /\ spc[t] \in {"idle", "done"}
    /\ spc' = [spc EXCEPT ![t] = "check"]
    /\ UNCHANGED <<accessor, instance, instances, created, got,
                   cleanVars, fixVars, ttsVars, aiVars, raceVars, ownVars, chatVars, speakVars>>

\* if _instance is None
GetCheck(t) ==
    /\ spc[t] = "check"
    /\ spc' = [spc EXCEPT ![t] = IF instance = 0 THEN "construct" ELSE "return"]
    /\ UNCHANGED <<accessor, instance, instances, created, got,
                   cleanVars, fixVars, ttsVars, aiVars, raceVars, ownVars, chatVars, speakVars>>

\* the right-hand side of _instance = Service(): the constructor runs
GetConstruct(t) ==
    /\ spc[t] = "construct"
    /\ \E cache_dir \in CacheDirs(accessor) :
         instances' = Append(instances, NewInstance(cache_dir))
    /\ created' = [created EXCEPT ![t] = Len(instances) + 1]
    /\ spc' = [spc EXCEPT ![t] = "assign"]
    /\ UNCHANGED <<accessor, instance, got,
                   cleanVars, fixVars, ttsVars, aiVars, raceVars, ownVars, chatVars, speakVars>>

\* the store to the module global
GetAssign(t) ==
    /\ spc[t] = "assign"
    /\ instance' = created[t]
    /\ spc' = [spc EXCEPT ![t] = "return"]
    /\ UNCHANGED <<accessor, instances, created, got,
                   cleanVars, fixVars, ttsVars, aiVars, raceVars, ownVars, chatVars, speakVars>>

\* return _instance; a caller of get_coqui_tts goes on to generate_speech
GetReturn(t) ==
    /\ spc[t] = "return"
    /\ got' = [got EXCEPT ![t] = instance]
    /\ spc' = [spc EXCEPT ![t] = IF accessor = "get_coqui_tts" THEN "load_check"
                                 ELSE "done"]
    /\ UNCHANGED <<accessor, instance, instances, created,
                   cleanVars, fixVars, ttsVars, aiVars, raceVars, ownVars, chatVars, speakVars>>

\* _load_model: if self.model_loaded: return
LoadCheck(t) ==
    /\ spc[t] = "load_check"
    /\ spc' = [spc EXCEPT ![t] = IF instances[got[t]].model_loaded THEN "done"
                                 ELSE "load_build"]
    /\ UNCHANGED <<accessor, instance, instances, created, got,
                   cleanVars, fixVars, ttsVars, aiVars, raceVars, ownVars, chatVars, speakVars>>

\* self.tts = TTS(model_name=..., gpu=False)
LoadBuild(t) ==
    /\ spc[t] = "load_build"
    /\ instances' = [instances EXCEPT ![got[t]].engines = @ + 1]
    /\ spc' = [spc EXCEPT ![t] = "load_set"]
    /\ UNCHANGED <<accessor, instance, created, got,
                   cleanVars, fixVars, ttsVars, aiVars, raceVars, ownVars, chatVars, speakVars>>

\* self.model_loaded = True
LoadSet(t) ==
    /\ spc[t] = "load_set"
    /\ instances' = [instances EXCEPT ![got[t]].model_loaded = TRUE]
    /\ spc' = [spc EXCEPT ![t] = "done"]
    /\ UNCHANGED <<accessor, instance, created, got,
                   cleanVars, fixVars, ttsVars, aiVars, raceVars, ownVars, chatVars, speakVars>>

InitSingleton ==
    /\ accessor \in Accessors
    /\ instance = 0
    /\ instances = <<>>
    /\ spc = [t \in Callers |-> "idle"]
    /\ created = [t \in Callers |-> 0]
    /\ got = [t \in Callers |-> 0]
    /\ RaceIdle
    /\ CleanIdle
    /\ FixIdle
    /\ OwnIdle
    /\ ChatIdle
    /\ TtsIdle
    /\ AiIdle
    /\ SpeakIdle

NextSingleton ==
    \E t \in Callers :
        \/ GetCall(t)
        \/ GetCheck(t)
        \/ GetConstruct(t)
        \/ GetAssign(t)
        \/ GetReturn(t)
        \/ LoadCheck(t)
        \/ LoadBuild(t)
        \/ LoadSet(t)

SpecSingleton == InitSingleton /\ [][NextSingleton]_vars

\* C14: create at most once. When all concurrent first callers of a singleton
\* accessor have returned, exactly one service instance has been constructed
\* and every caller holds that instance; and no CoquiTTSService instance has
\* constructed its TTS engine more than once.
C14_CreateOnce ==
    /\ (\A t \in Callers : spc[t] \in {"load_check", "load_build", "load_set", "done"})
         => ( /\ Len(instances) = 1
              /\ \A t \in Callers : got[t] = 1 )
    /\ \A i \in 1..Len(instances) : instances[i].engines <= 1

\* C36: the singleton accessors honour cache_dir on first use only. A caller
\* that holds the instance of get_edge_tts or get_coqui_tts is returned that
\* same instance, with its cache_dir unchanged, by every later call of the
\* accessor, whatever cache_dir it passes.
C36_CacheDirFirstUseOnly ==
    [][\A t \in Callers :
         (accessor \in {"get_edge_tts", "get_coqui_tts"} /\ got[t] # 0 /\ GetReturn(t))
         => ( /\ got'[t] = got[t]
              /\ instances'[got'[t]].cache_dir = instances[got[t]].cache_dir )]_vars

-----------------------------------------------------------------------------
(* generate_speech called by two callers at once for the same request: the
   lookup, the engine's writes to the cache path and the checks after it are
   separate steps, and clear_cache may run in between. The engines of all
   four services are handed the cache path itself and write the file in
   place, piece by piece. *)

\* an engine writes the file in this many pieces
ChunksPerFile == 2

\* clear_cache runs at most this often beside the callers
MaxClears == 1

\* the mark a caller's engine run leaves on the pieces it writes
Tag(t) == IF t = 1 THEN "w1" ELSE "w2"

\* a complete entry written before the callers came
OldEntry == [present |-> TRUE, cells |-> [i \in 1..ChunksPerFile |-> "old"]]

\* write(piece) at byte offset k of a file; a write past the end leaves a hole
WriteAt(cells, k, tag) ==
    IF k < Len(cells) THEN [cells EXCEPT ![k + 1] = tag]
    ELSE cells \o [i \in 1..(k - Len(cells)) |-> "hole"] \o <<tag>>

\* the file is the whole output of one engine run
Complete(cells) ==
    /\ Len(cells) = ChunksPerFile
    /\ \E w \in {"old", "w1", "w2"} : \A i \in 1..Len(cells) : cells[i] = w

\* some engine run has the file at the path open and is not done with it
BeingWritten == \E u \in Callers : rwr[u].st = "running" /\ rwr[u].attached

\* the file holds a piece of an engine run that was killed by the timeout
HoldsKilled ==
    \E u \in Callers :
        /\ rwr[u].st = "killed"
        /\ \E i \in 1..Len(rfile.cells) : rfile.cells[i] = Tag(u)

\* the dictionary returned, with what the file it names held at that moment
Returned(cached) ==
    [kind |-> "result", cached |-> cached,
     content |-> IF rfile.present THEN rfile.cells ELSE <<>>,
     during_write |-> BeingWritten, by_killed |-> HoldsKilled]

ReturnedNone == [NoReturn EXCEPT !.kind = "None"]

\* FileNotFoundError leaves generate_speech
RaisedToCaller == [NoReturn EXCEPT !.kind = "raised"]

\* generate_speech(text, ..., use_cache) is entered
Begin(t, use_cache) ==
    /\ rpc[t] = "idle"
    /\ rpc' = [rpc EXCEPT ![t] = IF use_cache THEN "exists" ELSE "engine_open"]
    /\ UNCHANGED <<rsvc, rfile, rret, rwr, rcleared,
                   cleanVars, fixVars, ttsVars, aiVars, singVars, ownVars, chatVars, speakVars>>

\* cache_path.exists(), the first half of _is_cached and all of Coqui's lookup
LookupExists(t) ==
    /\ rpc[t] = "exists"
    /\ rpc' = [rpc EXCEPT ![t] =
                 IF ~rfile.present THEN "engine_open"
                 ELSE IF rsvc = "CoquiTTSService" THEN "hit_stat" ELSE "stat"]
    /\ UNCHANGED <<rsvc, rfile, rret, rwr, rcleared,
                   cleanVars, fixVars, ttsVars, aiVars, singVars, ownVars, chatVars, speakVars>>

\* cache_path.stat().st_size > 0, the second half of _is_cached; it is called
\* outside the try block. The hit of gTTS and Piper returns without another
\* look at the file.
LookupStat(t) ==
    /\ rpc[t] = "stat"
    /\ IF ~rfile.present
         THEN /\ rret' = [rret EXCEPT ![t] = RaisedToCaller]
              /\ rpc' = [rpc EXCEPT ![t] = "done"]
       ELSE IF Len(rfile.cells) = 0
         THEN /\ rpc' = [rpc EXCEPT ![t] = "engine_open"]
              /\ UNCHANGED rret
       ELSE IF rsvc = "EdgeTTSService"
         THEN /\ rpc' = [rpc EXCEPT ![t] = "hit_stat"]
              /\ UNCHANGED rret
       ELSE /\ rret' = [rret EXCEPT ![t] = Returned(TRUE)]
            /\ rpc' = [rpc EXCEPT ![t] = "done"]
    /\ UNCHANGED <<rsvc, rfile, rwr, rcleared,
                   cleanVars, fixVars, ttsVars, aiVars, singVars, ownVars, chatVars, speakVars>>

\* "file_size": cache_path.stat().st_size of the cached result (Edge, Coqui),
\* outside the try block
HitStat(t) ==
    /\ rpc[t] = "hit_stat"
    /\ rret' = [rret EXCEPT ![t] = IF rfile.present THEN Returned(TRUE)
                                   ELSE RaisedToCaller]
    /\ rpc' = [rpc EXCEPT ![t] = "done"]
    /\ UNCHANGED <<rsvc, rfile, rwr, rcleared,
                   cleanVars, fixVars, ttsVars, aiVars, singVars, ownVars, chatVars, speakVars>>

\* the engine opens the cache path for writing: the file is created or cut
\* to nothing
EngineOpen(t) ==
    /\ rpc[t] = "engine_open"
    /\ rfile' = [present |-> TRUE, cells |-> <<>>]
    /\ rwr' = [rwr EXCEPT ![t] = [st |-> "running", pos |-> 0, attached |-> TRUE]]
    /\ rpc' = [rpc EXCEPT ![t] = "engine"]
    /\ UNCHANGED <<rsvc, rret, rcleared,
                   cleanVars, fixVars, ttsVars, aiVars, singVars, ownVars, chatVars, speakVars>>

\* the engine writes its next piece at its own offset; after an unlink it
\* writes to a file that has no name any more
EngineWrite(t) ==
    /\ rpc[t] = "engine"
    /\ rwr[t].st = "running"
    /\ rwr[t].pos < ChunksPerFile
    /\ rwr' = [rwr EXCEPT ![t].pos = @ + 1]
    /\ rfile' = IF rwr[t].attached
                  THEN [rfile EXCEPT !.cells = WriteAt(rfile.cells, rwr[t].pos, Tag(t))]
                  ELSE rfile
    /\ UNCHANGED <<rsvc, rpc, rret, rcleared,
                   cleanVars, fixVars, ttsVars, aiVars, singVars, ownVars, chatVars, speakVars>>

\* the engine has written everything and returns
EngineFinish(t) ==
    /\ rpc[t] = "engine"
    /\ rwr[t].st = "running"
    /\ rwr[t].pos = ChunksPerFile
    /\ rwr' = [rwr EXCEPT ![t].st = "finished"]
    /\ rpc' = [rpc EXCEPT ![t] = "verify"]
    /\ UNCHANGED <<rsvc, rfile, rret, rcleared,
                   cleanVars, fixVars, ttsVars, aiVars, singVars, ownVars, chatVars, speakVars>>

\* the engine raises or exits non-zero: generate_speech returns None
EngineFail(t) ==
    /\ rpc[t] = "engine"
    /\ rwr[t].st = "running"
    /\ rwr' = [rwr EXCEPT ![t].st = "failed"]
    /\ rret' = [rret EXCEPT ![t] = ReturnedNone]
    /\ rpc' = [rpc EXCEPT ![t] = "done"]
    /\ UNCHANGED <<rsvc, rfile, rcleared,
                   cleanVars, fixVars, ttsVars, aiVars, singVars, ownVars, chatVars, speakVars>>

\* subprocess.run(..., timeout=30): the child is killed and waited for, then
\* TimeoutExpired is raised and generate_speech returns None
PiperTimeout(t) ==
    /\ rsvc = "PiperTTSService"
    /\ rpc[t] = "engine"
    /\ rwr[t].st = "running"
    /\ rwr' = [rwr EXCEPT ![t].st = "killed"]
    /\ rret' = [rret EXCEPT ![t] = ReturnedNone]
    /\ rpc' = [rpc EXCEPT ![t] = "done"]
    /\ UNCHANGED <<rsvc, rfile, rcleared,
                   cleanVars, fixVars, ttsVars, aiVars, singVars, ownVars, chatVars, speakVars>>

\* what each service checks of the file before it returns the fresh result:
\* Edge wants it there and non-empty, gTTS and Piper stat it inside the try
\* block, Coqui takes the size as 0 if it is not there
Verify(t) ==
    /\ rpc[t] = "verify"
    /\ LET ok == CASE rsvc = "EdgeTTSService" -> rfile.present /\ Len(rfile.cells) > 0
                   [] rsvc \in {"GoogleTTSService", "PiperTTSService"} -> rfile.present
                   [] rsvc = "CoquiTTSService" -> TRUE
       IN  rret' = [rret EXCEPT ![t] = IF ok THEN Returned(FALSE) ELSE ReturnedNone]
    /\ rpc' = [rpc EXCEPT ![t] = "done"]
    /\ UNCHANGED <<rsvc, rfile, rwr, rcleared,
                   cleanVars, fixVars, ttsVars, aiVars, singVars, ownVars, chatVars, speakVars>>

\* clear_cache, called meanwhile: file.unlink() of every file the glob finds
ClearCacheMeanwhile ==
    /\ rcleared < MaxClears
    /\ rfile.present
    /\ rfile' = Absent
    /\ rwr' = [u \in Callers |-> [rwr[u] EXCEPT !.attached = FALSE]]
    /\ rcleared' = rcleared + 1
    /\ UNCHANGED <<rsvc, rpc, rret,
                   cleanVars, fixVars, ttsVars, aiVars, singVars, ownVars, chatVars, speakVars>>

InitRace ==
    /\ rsvc \in Services
    /\ rfile \in {Absent, OldEntry}
    /\ rpc = [t \in Callers |-> "idle"]
    /\ rret = [t \in Callers |-> NoReturn]
    /\ rwr = [t \in Callers |-> NoWriter]
    /\ rcleared = 0
    /\ SingIdle
    /\ CleanIdle
    /\ FixIdle
    /\ OwnIdle
    /\ ChatIdle
    /\ TtsIdle
    /\ AiIdle
    /\ SpeakIdle

NextRace ==
    \/ \E t \in Callers :
        \/ \E use_cache \in BOOLEAN : Begin(t, use_cache)
        \/ LookupExists(t)
        \/ LookupStat(t)
        \/ HitStat(t)
        \/ EngineOpen(t)
        \/ EngineWrite(t)
        \/ EngineFinish(t)
        \/ EngineFail(t)
        \/ PiperTimeout(t)
        \/ Verify(t)
    \/ ClearCacheMeanwhile

SpecRace == InitRace /\ [][NextRace]_vars

\* the steps generate_speech takes by itself, and the ones its engine takes
ServiceStep(t) ==
    \/ \E use_cache \in BOOLEAN : Begin(t, use_cache)
    \/ LookupExists(t)
    \/ LookupStat(t)
    \/ HitStat(t)
    \/ EngineOpen(t)
    \/ Verify(t)

\* the same callers, where the service's own steps and Piper's timer are
\* bound to happen but no engine is bound to answer
SpecRaceFair ==
    /\ InitRace
    /\ [][NextRace]_vars
    /\ \A t \in Callers : WF_vars(ServiceStep(t)) /\ WF_vars(PiperTimeout(t))

\* C15: a failing cache read is a miss. generate_speech never lets the I/O
\* error of its cache lookup (the file gone between exists() and stat())
\* reach the caller.
C15_ReadFailureIsMiss == \A t \in Callers : rret[t].kind # "raised"

\* C16: no leftovers of a timed-out Piper run. Nothing a Piper run wrote
\* before the timeout killed it is served as a cache hit afterwards.
C16_NoTimeoutLeftovers ==
    rsvc = "PiperTTSService"
      => \A t \in Callers :
            (rret[t].kind = "result" /\ rret[t].cached) => ~rret[t].by_killed

\* C17: bounded wait. Every generate_speech call that has invoked its engine
\* returns, even if the engine never answers.
C17_BoundedWait == \A t \in Callers : (rpc[t] = "engine") ~> (rpc[t] = "done")

\* C18: the same-key race converges. When two concurrent calls for the same
\* request have both run their engine to the end and returned a result (and
\* the cache was not cleared), the file at the cache path is the complete
\* output of one of the two runs.
C18_RaceConverges ==
    ( /\ \A t \in Callers :
            rpc[t] = "done" /\ rwr[t].st = "finished" /\ rret[t].kind = "result"
      /\ rcleared = 0 )
      => (rfile.present /\ Complete(rfile.cells))

\* C19: the lookup is safe against a concurrent put. A result with
\* cached=True is only returned for a file that is complete and that no
\* engine run is writing.
C19_HitOnlyComplete ==
    \A t \in Callers :
        (rret[t].kind = "result" /\ rret[t].cached)
          => (~rret[t].during_write /\ Complete(rret[t].content))

-----------------------------------------------------------------------------
(* Who constructs the backend handles: AIService and ExerciseService each
   build their text-generation client, the TTS services are built by their
   accessors *)

\* so many objects are constructed in one behaviour
MaxObjects == 5

\* AIService.__init__: self.gemini_client = GeminiClient()
NewAIService ==
    /\ Len(objects) < MaxObjects
    /\ objects' = Append(objects, "AIService")
    /\ handles' = [handles EXCEPT !["text"] = @ + 1]
    /\ UNCHANGED <<cleanVars, fixVars, ttsVars, aiVars, singVars, raceVars, chatVars, speakVars>>

\* ExerciseService.__init__: self.gemini_client = GeminiClient()
NewExerciseService ==
    /\ Len(objects) < MaxObjects
    /\ objects' = Append(objects, "ExerciseService")
    /\ handles' = [handles EXCEPT !["text"] = @ + 1]
    /\ UNCHANGED <<cleanVars, fixVars, ttsVars, aiVars, singVars, raceVars, chatVars, speakVars>>

\* get_edge_tts(): constructs EdgeTTSService while the module global is None
GetEdgeTts ==
    /\ Len(objects) < MaxObjects
    /\ IF handles["edge"] = 0
         THEN /\ objects' = Append(objects, "EdgeTTSService")
              /\ handles' = [handles EXCEPT !["edge"] = 1]
         ELSE UNCHANGED <<objects, handles>>
    /\ UNCHANGED <<cleanVars, fixVars, ttsVars, aiVars, singVars, raceVars, chatVars, speakVars>>

\* get_brazilian_tts(): constructs BrazilianTTSService while the module global
\* is None; its __init__ takes the Edge service from get_edge_tts
GetBrazilianTts ==
    /\ Len(objects) + 1 < MaxObjects
    /\ IF handles["brazilian"] = 0
         THEN /\ objects' = objects
                   \o (IF handles["edge"] = 0 THEN <<"EdgeTTSService">> ELSE <<>>)
                   \o <<"BrazilianTTSService">>
              /\ handles' = [handles EXCEPT !["edge"] = 1, !["brazilian"] = 1]
         ELSE UNCHANGED <<objects, handles>>
    /\ UNCHANGED <<cleanVars, fixVars, ttsVars, aiVars, singVars, raceVars, chatVars, speakVars>>

InitOwners ==
    /\ OwnIdle
    /\ CleanIdle
    /\ FixIdle
    /\ TtsIdle
    /\ AiIdle
    /\ SingIdle
    /\ RaceIdle
    /\ ChatIdle
    /\ SpeakIdle

NextOwners ==
    \/ NewAIService
    \/ NewExerciseService
    \/ GetEdgeTts
    \/ GetBrazilianTts

SpecOwners == InitOwners /\ [][NextOwners]_vars

\* C29: exclusive ownership of backend handles. At any time there is at most
\* one handle per backend capability, however many AIService and
\* ExerciseService objects are constructed and however often the accessors of
\* the TTS services are called.
C29_OneHandlePerCapability == \A c \in DOMAIN handles : handles[c] <= 1

-----------------------------------------------------------------------------
(* chat_with_object: the prompt and the conversation history in it *)

\* the messages a history is made of
ChatMessages ==
    {[role |-> "user", content |-> "a"], [role |-> "assistant", content |-> "b"]}

\* a history has up to this many messages
MaxHistory == 6

\* conversation_history as passed: None (not given), or a list of messages
Histories ==
    {[given |-> FALSE, list |-> <<>>]}
    \cup {[given |-> TRUE, list |-> l] :
            l \in UNION {[1..n -> ChatMessages] : n \in 0..MaxHistory}}

\* user_age as passed: 0 stands for None and for 0, which Python tests alike
UserAges == {0, 8}

\* conversation_history = [] if it is None
HistoryList(h) == IF ~h.given THEN <<>> ELSE h.list

\* the number of messages the prompt takes from the history
HistoryWindow == 5

\* as if the slice were conversation_history[:5]
FirstMessages(h) == SubSeq(h, 1, Min({Len(h), HistoryWindow}))

\* conversation_history[-5:]
LastMessages(h) == SubSeq(h, Max({Len(h) - HistoryWindow, 0}) + 1, Len(h))

\* one line of the history section: f"{role_label}: {msg.get('content')}\n"
HistoryLine(msg) ==
    <<IF msg.role = "user" THEN "Aluno" ELSE "Professor", ": ", msg.content, "\n">>

RECURSIVE HistoryLines(_)
HistoryLines(msgs) ==
    IF msgs = <<>> THEN <<>> ELSE HistoryLine(Head(msgs)) \o HistoryLines(Tail(msgs))

\* history_text: empty for an empty history, else the header and the lines
history_text(h) ==
    IF HistoryList(h) = <<>> THEN <<>>
    ELSE <<"\n\nHISTORICO DA CONVERSA:\n">> \o HistoryLines(LastMessages(HistoryList(h)))

\* tone, by the age of the user; None and 0 keep the default
tone(user_age) ==
    IF user_age = 0 THEN "amigavel e educativo"
    ELSE IF user_age < 10 THEN "muito simples, divertido e encorajador"
    ELSE IF user_age < 14 THEN "amigavel, claro e motivador"
    ELSE "direto, informativo e respeitoso"

\* the prompt: the fixed template with the values it interpolates
chat_prompt(w, translation, user_message, h, user_age) ==
    [tone |-> tone(user_age), translation |-> translation, word |-> w,
     \* {user_age or 'nao especificada'}
     user_age |-> [specified |-> user_age # 0, age |-> user_age],
     history_text |-> history_text(h), user_message |-> user_message]

\* chat_with_object up to the call of the backend: the prompt is built
BuildChatPrompt(h, user_age) ==
    /\ Len(chatRuns) < 2
    /\ chatRuns' = Append(chatRuns,
                          [history |-> h, user_age |-> user_age,
                           prompt |-> chat_prompt(AiWord, <<"s", "o", "l">>, <<"o", "i">>,
                                                  h, user_age)])
    /\ UNCHANGED <<cleanVars, fixVars, ttsVars, aiVars, singVars, raceVars, ownVars, speakVars>>

InitChat ==
    /\ ChatIdle
    /\ CleanIdle
    /\ FixIdle
    /\ TtsIdle
    /\ AiIdle
    /\ SingIdle
    /\ RaceIdle
    /\ OwnIdle
    /\ SpeakIdle

NextChat == \E h \in Histories, user_age \in UserAges : BuildChatPrompt(h, user_age)

SpecChat == InitChat /\ [][NextChat]_vars

\* the last k messages of a history, by position
FinalMessages(h, k) ==
    LET l == HistoryList(h)
        n == Min({Len(l), k})
    IN  [j \in 1..n |-> l[Len(l) - n + j]]

\* C30: chat history window. The history section of the prompt holds the last
\* 5 messages of conversation_history, or all of them if there are fewer, one
\* line each in their original order; an empty or missing history gives no
\* history section; and two calls whose histories end in the same 5 messages
\* (the other arguments being equal) build the same prompt.
C30_HistoryWindow ==
    /\ \A i \in 1..Len(chatRuns) :
         LET r == chatRuns[i]
             final == FinalMessages(r.history, 5)
             section == r.prompt.history_text
         IN  IF HistoryList(r.history) = <<>> THEN section = <<>>
             ELSE /\ Len(section) = 1 + 4 * Len(final)
                  /\ \A j \in 1..Len(final) :
                       SubSeq(section, 4 * j - 2, 4 * j + 1) = HistoryLine(final[j])
    /\ \A i, j \in 1..Len(chatRuns) :
         ( /\ FinalMessages(chatRuns[i].history, 5) = FinalMessages(chatRuns[j].history, 5)
           /\ chatRuns[i].user_age = chatRuns[j].user_age )
         => chatRuns[i].prompt = chatRuns[j].prompt

\* C30 witness: two calls whose histories of 6 messages differ in the first
\* message only
C30_Witness ==
    /\ Len(chatRuns) = 2
    /\ Len(HistoryList(chatRuns[1].history)) = 6
    /\ Len(HistoryList(chatRuns[2].history)) = 6
    /\ chatRuns[1].history # chatRuns[2].history
    /\ chatRuns[1].user_age = chatRuns[2].user_age
    /\ chatRuns[1].prompt = chatRuns[2].prompt

-----------------------------------------------------------------------------
(* The standalone speech server: POST /speak handled by the threads of the
   Flask server, all of them using the module's one pyttsx3 engine and the
   one file <tempdir>/speech.mp3 *)

SpeakTexts == { <<"H", "i">>, <<"O", "i">>, <<"T", "V">> }

NoResponse == [status |-> 0, audio |-> <<>>]

\* return send_file(temp_file, mimetype='audio/mp3'): the body is what the
\* file holds when it is read
Audio(content) == [status |-> 200, audio |-> content]

\* except Exception as e: return str(e), 500
ServerError == [status |-> 500, audio |-> <<>>]

\* data = request.json; text = data.get('text', ''); temp_file = ...
SpeakReceive(t) ==
    /\ speakReq[t].pc = "idle"
    /\ speakReq' = [speakReq EXCEPT ![t].pc = "save_to_file"]
    /\ UNCHANGED <<engine, temp_file, cleanVars, fixVars, ttsVars, aiVars, singVars,
                   raceVars, ownVars, chatVars>>

\* engine.save_to_file(text, temp_file): the command is queued in the engine
SaveToFile(t) ==
    /\ speakReq[t].pc = "save_to_file"
    /\ engine' = [engine EXCEPT !.queue = Append(@, speakReq[t].text)]
    /\ speakReq' = [speakReq EXCEPT ![t].pc = "runAndWait"]
    /\ UNCHANGED <<temp_file, cleanVars, fixVars, ttsVars, aiVars, singVars,
                   raceVars, ownVars, chatVars>>

\* engine.runAndWait() is entered: it raises RuntimeError('run loop already
\* started') while another thread is inside it
RunAndWait(t) ==
    /\ speakReq[t].pc = "runAndWait"
    /\ IF engine.in_loop
         THEN /\ speakReq' = [speakReq EXCEPT ![t].pc = "done", ![t].response = ServerError]
              /\ UNCHANGED engine
         ELSE /\ speakReq' = [speakReq EXCEPT ![t].pc = "in_loop"]
              /\ engine' = [engine EXCEPT !.in_loop = TRUE]
    /\ UNCHANGED <<temp_file, cleanVars, fixVars, ttsVars, aiVars, singVars,
                   raceVars, ownVars, chatVars>>

\* the loop runs the next queued command: the speech of its text is written
\* to the file
LoopStep(t) ==
    /\ speakReq[t].pc = "in_loop"
    /\ engine.queue # <<>>
    /\ temp_file' = [exists |-> TRUE, audio |-> Head(engine.queue)]
    /\ engine' = [engine EXCEPT !.queue = Tail(@)]
    /\ UNCHANGED <<speakReq, cleanVars, fixVars, ttsVars, aiVars, singVars,
                   raceVars, ownVars, chatVars>>

\* the queue is empty: runAndWait returns
LoopEnd(t) ==
    /\ speakReq[t].pc = "in_loop"
    /\ engine.queue = <<>>
    /\ engine' = [engine EXCEPT !.in_loop = FALSE]
    /\ speakReq' = [speakReq EXCEPT ![t].pc = "send_file"]
    /\ UNCHANGED <<temp_file, cleanVars, fixVars, ttsVars, aiVars, singVars,
                   raceVars, ownVars, chatVars>>

\* return send_file(temp_file, ...); a missing file raises inside the try
SendFile(t) ==
    /\ speakReq[t].pc = "send_file"
    /\ speakReq' = [speakReq EXCEPT
                      ![t].pc = "done",
                      ![t].response = IF temp_file.exists THEN Audio(temp_file.audio)
                                      ELSE ServerError]
    /\ UNCHANGED <<engine, temp_file, cleanVars, fixVars, ttsVars, aiVars, singVars,
                   raceVars, ownVars, chatVars>>

InitSpeak ==
    /\ speakReq \in [Callers -> [text : SpeakTexts, pc : {"idle"}, response : {NoResponse}]]
    /\ engine = [queue |-> <<>>, in_loop |-> FALSE]
    /\ temp_file = [exists |-> FALSE, audio |-> <<>>]
    /\ CleanIdle
    /\ FixIdle
    /\ TtsIdle
    /\ AiIdle
    /\ SingIdle
    /\ RaceIdle
    /\ OwnIdle
    /\ ChatIdle

NextSpeak ==
    \E t \in Callers :
        \/ SpeakReceive(t)
        \/ SaveToFile(t)
        \/ RunAndWait(t)
        \/ LoopStep(t)
        \/ LoopEnd(t)
        \/ SendFile(t)

SpecSpeak == InitSpeak /\ [][NextSpeak]_vars

\* C33: per-request isolation in the speech server. Of two POST /speak
\* requests with different texts that are handled at the same time, each is
\* answered with the audio synthesized from its own text.
C33_SpeakIsolated ==
    \A t, u \in Callers :
        (speakReq[t].text # speakReq[u].text /\ speakReq[t].pc = "done")
          => speakReq[t].response = Audio(speakReq[t].text)

=============================================================================
